---- MODULE Spec2Model ----
(***************************************************************************)
(* Model of the mesh vertex codec of mixar_assignment:                     *)
(*   normalization.py     norm_minmax / denorm_minmax / norm_sphere /      *)
(*                        denorm_sphere                                    *)
(*   step4_quantize.py    quantize / dequantize / process_mesh_file        *)
(*   step5_reconstruct.py dequantize / denormalize /                       *)
(*                        process_mesh_reconstruction                      *)
(*                                                                         *)
(* Numbers.  numpy float64 values are modelled by exact numbers of the     *)
(* form a + b*sqrt(r) with a, b, r rational (r the squared scale of the    *)
(* vertex set at hand), so that np.linalg.norm, np.floor, division and     *)
(* comparison are computed exactly; IEEE-754 rounding is not modelled.     *)
(* A rational is a pair <<n, d>> in lowest terms with d > 0.               *)
(***************************************************************************)
EXTENDS Integers, Sequences, FiniteSets, TLC

(***************************************************************************)
(* Bounds of the model.                                                    *)
(***************************************************************************)
MaxN == 2          \* most points in a vertex set
MaxCoord == 1      \* largest x coordinate of an input point
MaxBins == 3       \* largest bins argument tried
MaxMeshN == 2      \* most points in a mesh file run through step4 and step5

(***************************************************************************)
(* Rational arithmetic.                                                    *)
(***************************************************************************)
Abs(x) == IF x < 0 THEN -x ELSE x

RECURSIVE GCD(_, _)
GCD(m, n) == IF n = 0 THEN m ELSE GCD(n, m % n)

Frac(n, d) ==
  LET s == IF d < 0 THEN -1 ELSE 1
      g == GCD(Abs(n), Abs(d))
  IN  <<(s * n) \div g, (s * d) \div g>>

R0 == <<0, 1>>
R1 == <<1, 1>>
RInt(k) == <<k, 1>>
RAdd(x, y) ==
  LET g == GCD(x[2], y[2])
  IN  Frac(x[1] * (y[2] \div g) + y[1] * (x[2] \div g), (x[2] \div g) * y[2])
RNeg(x) == <<-x[1], x[2]>>
RSub(x, y) == RAdd(x, RNeg(y))
RMul(x, y) ==
  LET g == GCD(Abs(x[1]), y[2])
      h == GCD(Abs(y[1]), x[2])
  IN  <<(x[1] \div g) * (y[1] \div h), (x[2] \div h) * (y[2] \div g)>>
RDiv(x, y) == RMul(x, IF y[1] < 0 THEN <<-y[2], -y[1]>> ELSE <<y[2], y[1]>>)
RLeq(x, y) ==
  LET g == GCD(x[2], y[2]) IN x[1] * (y[2] \div g) <= y[1] * (x[2] \div g)
RLt(x, y) == ~RLeq(y, x)
RFloor(x) == x[1] \div x[2]

\* largest k with k*k <= n, for n >= 0, by bisection on lo..hi
RECURSIVE ISqrtIn(_, _, _)
ISqrtIn(n, lo, hi) ==
  IF lo >= hi THEN lo
  ELSE LET mid == (lo + hi + 1) \div 2
       IN  IF mid * mid <= n THEN ISqrtIn(n, mid, hi) ELSE ISqrtIn(n, lo, mid - 1)

ISqrt(n) == ISqrtIn(n, 0, IF n < 46340 THEN n ELSE 46340)

IsSquare(n) == ISqrt(n) * ISqrt(n) = n

(***************************************************************************)
(* float64 values: a + b*sqrt(r).  b = 0 forces r = 0, and r is never the  *)
(* square of a rational, so equal values are equal records.  The three     *)
(* non-finite values carry the radicand -1: nan, and inf with its sign.    *)
(***************************************************************************)
NaN == [a |-> <<0, 1>>, b |-> <<0, 1>>, r |-> <<-1, 1>>]
Inf(sign) == [a |-> <<sign, 1>>, b |-> <<0, 1>>, r |-> <<-1, 1>>]
IsFinite(x) == x.r # <<-1, 1>>
Mk(a, b, r) == IF b = R0 THEN [a |-> a, b |-> R0, r |-> R0]
                         ELSE [a |-> a, b |-> b, r |-> r]
Num(x) == Mk(x, R0, R0)
IntN(k) == Num(RInt(k))
Zero == IntN(0)
One == IntN(1)
Rad(x, y) == IF x.b # R0 THEN x.r ELSE y.r

\* 0 <= a + b*sqrt(r); false for nan
NonNeg(x) ==
  LET a2 == RMul(x.a, x.a)
      b2r == RMul(RMul(x.b, x.b), x.r)
  IN  IF ~IsFinite(x) THEN x = Inf(1)
      ELSE IF x.b = R0 THEN x.a[1] >= 0
      ELSE IF RLeq(R0, x.a)
      THEN RLeq(R0, x.b) \/ RLeq(b2r, a2)
      ELSE RLt(R0, x.b) /\ RLeq(a2, b2r)
\* -1, 0 or 1; 0 for nan
Sgn(x) == IF x = NaN \/ x = Mk(R0, R0, R0) THEN 0 ELSE IF NonNeg(x) THEN 1 ELSE -1

Add(x, y) ==
  IF x.r = R0 /\ y.r = R0 THEN [a |-> RAdd(x.a, y.a), b |-> R0, r |-> R0]
  ELSE IF IsFinite(x) /\ IsFinite(y) THEN Mk(RAdd(x.a, y.a), RAdd(x.b, y.b), Rad(x, y))
  ELSE IF x = NaN \/ y = NaN THEN NaN
  ELSE IF IsFinite(y) THEN x
  ELSE IF IsFinite(x) \/ x = y THEN y
  ELSE NaN
Neg(x) == IF IsFinite(x) THEN [a |-> RNeg(x.a), b |-> RNeg(x.b), r |-> x.r]
          ELSE IF x = NaN THEN NaN ELSE Inf(-Sgn(x))
Sub(x, y) == Add(x, Neg(y))
Mul(x, y) ==
  LET r == Rad(x, y)
  IN  IF x.r = R0 /\ y.r = R0 THEN [a |-> RMul(x.a, y.a), b |-> R0, r |-> R0]
      ELSE IF IsFinite(x) /\ IsFinite(y)
      THEN Mk(RAdd(RMul(x.a, y.a), RMul(RMul(x.b, y.b), r)),
              RAdd(RMul(x.a, y.b), RMul(x.b, y.a)), r)
      ELSE IF Sgn(x) * Sgn(y) = 0 THEN NaN ELSE Inf(Sgn(x) * Sgn(y))
\* x / y: x * conj(y) / (y.a^2 - y.b^2 * r); numpy gives nan or inf for y = 0
Div(x, y) ==
  LET r == Rad(x, y)
      den == RSub(RMul(y.a, y.a), RMul(RMul(y.b, y.b), r))
      p == Mul(x, Mk(y.a, RNeg(y.b), r))
  IN  IF ~IsFinite(x) THEN (IF IsFinite(y) /\ Sgn(x) # 0
                             THEN Inf(Sgn(x) * (IF Sgn(y) < 0 THEN -1 ELSE 1)) ELSE NaN)
      ELSE IF ~IsFinite(y) THEN (IF y = NaN THEN NaN ELSE Mk(R0, R0, R0))
      ELSE IF y = Mk(R0, R0, R0) THEN (IF Sgn(x) = 0 THEN NaN ELSE Inf(Sgn(x)))
      ELSE IF x.r = R0 /\ y.r = R0 THEN [a |-> RDiv(x.a, y.a), b |-> R0, r |-> R0]
      ELSE Mk(RDiv(p.a, den), RDiv(p.b, den), r)

\* x <= y; false when either is nan
Leq(x, y) == x # NaN /\ y # NaN /\ (x = y \/ NonNeg(Sub(y, x)))
Lt(x, y) == ~Leq(y, x)
AbsN(x) == IF NonNeg(x) THEN x ELSE Neg(x)

\* np.sqrt of a rational p >= 0
Sqrt(p) ==
  IF IsSquare(p[1]) /\ IsSquare(p[2])
  THEN Num(<<ISqrt(p[1]), ISqrt(p[2])>>)
  ELSE Mk(R0, R1, p)

\* the int32 that astype(np.int32) makes of nan and of values out of range
IntMin == -2147483647 - 1

\* np.floor(x).astype(np.int32): the largest integer k with k <= x
Floor(x) ==
  IF ~IsFinite(x) THEN IntMin
  ELSE IF x.b = R0 THEN RFloor(x.a)
  ELSE LET fa == RFloor(x.a)
           s == RMul(RMul(x.b, x.b), x.r)
           t == ISqrt(RFloor(s))
           lo == IF RLt(R0, x.b) THEN fa + t ELSE fa - t - 1
       IN  IF Leq(IntN(lo + 1), x) THEN lo + 1 ELSE lo

(***************************************************************************)
(* numpy arrays: ndim, the number of columns, and the rows.  A vertex      *)
(* array has float64 entries, a lattice has int32 entries.                 *)
(***************************************************************************)
Axes == 1..3
Arr(rows) == [ndim |-> 2, cols |-> 3, rows |-> rows]
NoArray == [ndim |-> 0, cols |-> 0, rows |-> <<>>]
NoParams == [method |-> "none"]
Raise(e) == [ok |-> FALSE, error |-> e]

Idx(x) == 1..Len(x.rows)

\* a 3-vector and an n x 3 table given entry by entry
Vec(F(_)) == <<F(1), F(2), F(3)>>
RECURSIVE Table(_, _)
Table(F(_, _), n) ==
  IF n = 0 THEN <<>> ELSE Append(Table(F, n - 1), <<F(n, 1), F(n, 2), F(n, 3)>>)

\* variant: an array without rows passes whatever its second dimension
ShapeOK_Lenient(x) == x.ndim = 2 /\ (x.cols = 3 \/ Len(x.rows) = 0)

\* `x.ndim != 2 or x.shape[1] != 3` is false
ShapeOK(x) == x.ndim = 2 /\ x.cols = 3

RECURSIVE FoldRows(_, _, _, _)
FoldRows(Op(_, _), rows, a, i) ==
  IF i = 1 THEN rows[1][a] ELSE Op(FoldRows(Op, rows, a, i - 1), rows[i][a])

MinN(x, y) == IF Leq(x, y) THEN x ELSE y
MaxN2(x, y) == IF Leq(x, y) THEN y ELSE x
RMax(x, y) == IF RLeq(x, y) THEN y ELSE x

\* variant: the maximum of the flattened array on every axis
ColMax_Flat(rows) ==
  Vec(LAMBDA a : MaxN2(MaxN2(FoldRows(MaxN2, rows, 1, Len(rows)),
                             FoldRows(MaxN2, rows, 2, Len(rows))),
                       FoldRows(MaxN2, rows, 3, Len(rows))))

\* vertices.min(axis=0), vertices.max(axis=0), vertices.mean(axis=0)
ColMin(rows) == Vec(LAMBDA a : FoldRows(MinN, rows, a, Len(rows)))
ColMax(rows) == Vec(LAMBDA a : FoldRows(MaxN2, rows, a, Len(rows)))
ColMean(rows) ==
  Vec(LAMBDA a : Div(FoldRows(Add, rows, a, Len(rows)), IntN(Len(rows))))

\* squared Euclidean norm of one row
Norm2(row) == Add(Add(Mul(row[1], row[1]), Mul(row[2], row[2])), Mul(row[3], row[3]))

\* variant: the smallest squared norm instead of the largest
RECURSIVE MaxNorm2_Smallest(_, _)
MaxNorm2_Smallest(rows, i) ==
  IF i = 1 THEN Norm2(rows[1]).a
  ELSE LET m == MaxNorm2_Smallest(rows, i - 1)
       IN  IF RLeq(m, Norm2(rows[i]).a) THEN m ELSE Norm2(rows[i]).a

RECURSIVE MaxNorm2(_, _)
MaxNorm2(rows, i) ==
  IF i = 0 THEN R0 ELSE RMax(MaxNorm2(rows, i - 1), Norm2(rows[i]).a)

(***************************************************************************)
(* normalization.py                                                        *)
(***************************************************************************)
\* variant: the range taken from v_max alone
range_per_axis_FromZero(v_min, v_max) ==
  Vec(LAMBDA a : IF v_max[a] = Zero THEN One ELSE v_max[a])

\* range_per_axis = v_max - v_min; range_per_axis[range_per_axis == 0] = 1.0
range_per_axis(v_min, v_max) ==
  Vec(LAMBDA a : IF Sub(v_max[a], v_min[a]) = Zero
                 THEN One ELSE Sub(v_max[a], v_min[a]))

\* variant: the record's v_max is v_min plus the range divided by
minmax_ranged_StoresRange(rows, v_min, v_max, range) ==
  [ok |-> TRUE,
   normalized |->
     Arr(Table(LAMBDA i, a : Div(Sub(rows[i][a], v_min[a]), range[a]), Len(rows))),
   params |-> [method |-> "minmax", v_min |-> v_min,
               v_max |-> Vec(LAMBDA a : Add(v_min[a], range[a]))]]

\* normalized = (vertices - v_min) / range_per_axis, and the record returned with it
minmax_ranged(rows, v_min, v_max, range) ==
  [ok |-> TRUE,
   normalized |->
     Arr(Table(LAMBDA i, a : Div(Sub(rows[i][a], v_min[a]), range[a]), Len(rows))),
   params |-> [method |-> "minmax", v_min |-> v_min, v_max |-> v_max]]

minmax_between(rows, v_min, v_max) ==
  minmax_ranged(rows, v_min, v_max, range_per_axis(v_min, v_max))

\* the body of norm_minmax for a non-empty N x 3 array
minmax_of(rows) == minmax_between(rows, ColMin(rows), ColMax(rows))

norm_minmax(vertices) ==
  IF ~ShapeOK(vertices) THEN Raise("ValueError")
  ELSE IF Len(vertices.rows) = 0 THEN Raise("ValueError")  \* min of a zero-size array
  ELSE minmax_of(vertices.rows)

\* variant: scales by the range the forward transform divided by
minmax_inverse_Substituted(rows, v_min, v_max) ==
  Table(LAMBDA i, a :
          Add(Mul(rows[i][a], range_per_axis(v_min, v_max)[a]), v_min[a]),
        Len(rows))

\* variant: scales by v_max instead of v_max - v_min
minmax_inverse_ByMax(rows, v_min, v_max) ==
  Table(LAMBDA i, a : Add(Mul(rows[i][a], v_max[a]), v_min[a]), Len(rows))

\* reconstructed = normalized * (v_max - v_min) + v_min
minmax_inverse(rows, v_min, v_max) ==
  Table(LAMBDA i, a : Add(Mul(rows[i][a], Sub(v_max[a], v_min[a])), v_min[a]), Len(rows))

\* variant: the tag of the record is not looked at
denorm_minmax_AnyTag(normalized, params) ==
  IF ~ShapeOK(normalized) THEN Raise("ValueError")
  ELSE IF ~({"v_min", "v_max"} \subseteq DOMAIN params) THEN Raise("KeyError")
  ELSE [ok |-> TRUE,
        reconstructed |-> Arr(minmax_inverse(normalized.rows, params.v_min, params.v_max))]

denorm_minmax(normalized, params) ==
  IF params.method # "minmax" THEN Raise("ValueError")
  ELSE IF ~ShapeOK(normalized) THEN Raise("ValueError")
  ELSE IF ~({"v_min", "v_max"} \subseteq DOMAIN params) THEN Raise("KeyError")
  ELSE [ok |-> TRUE,
        reconstructed |-> Arr(minmax_inverse(normalized.rows, params.v_min, params.v_max))]

\* variant: a zero scale is kept
scale_of_Unguarded(max_distance) == max_distance

\* if scale == 0: scale = 1.0
scale_of(max_distance) == IF max_distance = Zero THEN One ELSE max_distance

\* normalized = shifted / scale, and the record returned with it
sphere_scaled(center, shifted, scale) ==
  [ok |-> TRUE,
   normalized |-> Arr(Table(LAMBDA i, a : Div(shifted[i][a], scale), Len(shifted))),
   params |-> [method |-> "sphere", center |-> center, scale |-> scale]]

\* scale = np.max(np.linalg.norm(shifted, axis=1)): the root of the largest squared norm
sphere_shifted(center, shifted) ==
  sphere_scaled(center, shifted, scale_of(Sqrt(MaxNorm2(shifted, Len(shifted)))))

\* shifted = vertices - center
sphere_about(rows, center) ==
  sphere_shifted(center, Table(LAMBDA i, a : Sub(rows[i][a], center[a]), Len(rows)))

\* the body of norm_sphere for a non-empty N x 3 array
sphere_of(rows) == sphere_about(rows, ColMean(rows))

\* variant: the empty array is let through
norm_sphere_Empty(vertices) ==
  IF ~ShapeOK(vertices) THEN Raise("ValueError")
  ELSE IF Len(vertices.rows) = 0
  THEN [ok |-> TRUE, normalized |-> Arr(<<>>),
        params |-> [method |-> "sphere", center |-> <<NaN, NaN, NaN>>, scale |-> One]]
  ELSE sphere_of(vertices.rows)

norm_sphere(vertices) ==
  IF ~ShapeOK(vertices) THEN Raise("ValueError")
  ELSE IF Len(vertices.rows) = 0 THEN Raise("ValueError")  \* np.max of a zero-size array
  ELSE sphere_of(vertices.rows)

denorm_sphere(normalized, params) ==
  IF params.method # "sphere" THEN Raise("ValueError")
  ELSE IF ~ShapeOK(normalized) THEN Raise("ValueError")
  ELSE IF ~({"center", "scale"} \subseteq DOMAIN params) THEN Raise("KeyError")
  ELSE
    LET center == params.center
        scale == params.scale
        rows == normalized.rows
    IN  [ok |-> TRUE,
         reconstructed |-> Arr(
           Table(LAMBDA i, a : Add(Mul(rows[i][a], scale), center[a]), Len(rows)))]

(***************************************************************************)
(* step4_quantize.py                                                       *)
(***************************************************************************)
BINS == 1024

\* variant: only the lower end is clamped
Clip_LowerOnly(k, lo, hi) == IF k < lo THEN lo ELSE k

\* np.clip(k, lo, hi): minimum(maximum(k, lo), hi), which is hi when lo > hi
Clip(k, lo, hi) == IF k > hi \/ lo > hi THEN hi ELSE IF k < lo THEN lo ELSE k

\* variant: rounds to the nearest bin
FloorBin_Nearest(x01, bins) ==
  Floor(Add(Mul(x01, IntN(bins - 1)), Num(<<1, 2>>)))

\* np.floor(normalized01 * (bins - 1)).astype(np.int32), before the clip
FloorBin(x01, bins) == Floor(Mul(x01, IntN(bins - 1)))

\* variant: the sphere's [-1, 1] is not remapped
Normalized01_Raw(x, method) == x

\* the method's remap of one component to [0, 1]
Normalized01(x, method) ==
  IF method = "minmax" THEN x ELSE Div(Add(x, One), IntN(2))

\* variant: the lattice comes out last point first
quantize_Reversed(normalized, bins, method) ==
  IF ~ShapeOK(normalized) THEN Raise("ValueError")
  ELSE IF method \notin {"minmax", "sphere"} THEN Raise("ValueError")
  ELSE
    LET rows == normalized.rows
    IN  [ok |-> TRUE,
         q |-> Arr(Table(LAMBDA i, a :
                     Clip(FloorBin(Normalized01(rows[Len(rows) + 1 - i][a], method), bins),
                          0, bins - 1),
                     Len(rows)))]

quantize(normalized, bins, method) ==
  IF ~ShapeOK(normalized) THEN Raise("ValueError")
  ELSE IF method \notin {"minmax", "sphere"} THEN Raise("ValueError")
  ELSE
    LET rows == normalized.rows
    IN  [ok |-> TRUE,
         q |-> Arr(Table(LAMBDA i, a :
                     Clip(FloorBin(Normalized01(rows[i][a], method), bins), 0, bins - 1),
                     Len(rows)))]

\* variant: the bin index is not divided by bins - 1
dequantize_Unscaled(q, bins, method) ==
  IF ~ShapeOK(q) THEN Raise("ValueError")
  ELSE IF method \notin {"minmax", "sphere"} THEN Raise("ValueError")
  ELSE
    LET rows == q.rows
    IN  [ok |-> TRUE,
         normalized |-> Arr(
           Table(LAMBDA i, a :
                   IF method = "minmax" THEN IntN(rows[i][a])
                   ELSE Sub(Mul(IntN(rows[i][a]), IntN(2)), One), Len(rows)))]

dequantize(q, bins, method) ==
  IF ~ShapeOK(q) THEN Raise("ValueError")
  ELSE IF method \notin {"minmax", "sphere"} THEN Raise("ValueError")
  ELSE
    LET rows == q.rows
        dequantized01 ==
          Table(LAMBDA i, a : Div(IntN(rows[i][a]), IntN(bins - 1)), Len(rows))
    IN  [ok |-> TRUE,
         normalized |-> Arr(
           Table(LAMBDA i, a :
                   IF method = "minmax" THEN dequantized01[i][a]
                   ELSE Sub(Mul(dequantized01[i][a], IntN(2)), One), Len(rows)))]

(***************************************************************************)
(* step5_reconstruct.py                                                    *)
(***************************************************************************)
\* variant: an unknown selector is decoded like 'minmax'
dequantize5_Default(q, bins, method) ==
  IF ~ShapeOK(q) THEN Raise("ValueError")
  ELSE
    LET rows == q.rows
        dequantized01 ==
          Table(LAMBDA i, a : Div(IntN(rows[i][a]), IntN(bins - 1)), Len(rows))
    IN  [ok |-> TRUE,
         normalized |-> Arr(
           Table(LAMBDA i, a :
                   IF method = "sphere"
                   THEN Sub(Mul(dequantized01[i][a], IntN(2)), One)
                   ELSE dequantized01[i][a], Len(rows)))]

\* step5's own copy of dequantize
dequantize5(q, bins, method) ==
  IF ~ShapeOK(q) THEN Raise("ValueError")
  ELSE IF method \notin {"minmax", "sphere"} THEN Raise("ValueError")
  ELSE
    LET rows == q.rows
        dequantized01 ==
          Table(LAMBDA i, a : Div(IntN(rows[i][a]), IntN(bins - 1)), Len(rows))
    IN  [ok |-> TRUE,
         normalized |-> Arr(
           Table(LAMBDA i, a :
                   IF method = "minmax" THEN dequantized01[i][a]
                   ELSE Sub(Mul(dequantized01[i][a], IntN(2)), One), Len(rows)))]

\* dispatches on the tag of the record, not on the caller's method
denormalize(normalized, params) ==
  IF params.method = "minmax" THEN denorm_minmax(normalized, params)
  ELSE IF params.method = "sphere" THEN denorm_sphere(normalized, params)
  ELSE Raise("ValueError")

(***************************************************************************)
(* step6_metrics.py: compute_errors.  The per-vertex errors are square     *)
(* roots; the model takes them of rationals, and the inputs are drawn so   *)
(* that they are rational themselves, which keeps np.std exact.            *)
(***************************************************************************)
NoMetrics == [mse_total |-> NaN]

\* the sum of F(1) .. F(n), and the sequence <<F(1), .., F(n)>>
RECURSIVE Sum(_, _)
Sum(F(_), n) == IF n = 0 THEN Zero ELSE Add(Sum(F, n - 1), F(n))
RECURSIVE List(_, _)
List(F(_), n) == IF n = 0 THEN <<>> ELSE Append(List(F, n - 1), F(n))

Sq(x) == Mul(x, x)

\* np.mean(x) over all entries and np.mean(x, axis=0) of an n x 3 table
MeanAll(x) ==
  Div(Sum(LAMBDA i : Add(Add(x[i][1], x[i][2]), x[i][3]), Len(x)), IntN(3 * Len(x)))
MeanAxis(x, a) == Div(Sum(LAMBDA i : x[i][a], Len(x)), IntN(Len(x)))

\* the smallest squared norm of the rows
RECURSIVE MinNorm2(_, _)
MinNorm2(rows, i) ==
  IF i = 1 THEN Norm2(rows[1]).a
  ELSE LET m == MinNorm2(rows, i - 1)
       IN  IF RLeq(m, Norm2(rows[i]).a) THEN m ELSE Norm2(rows[i]).a

\* np.std(e): the root of the mean squared deviation from the mean
StdTo(e, mean) ==
  Sqrt(Div(Sum(LAMBDA i : Sq(Sub(e[i], mean)), Len(e)), IntN(Len(e))).a)
Std(e) == StdTo(e, Div(Sum(LAMBDA i : e[i], Len(e)), IntN(Len(e))))

\* variant: every mean is taken over the number of vertices
metrics_of_PerVertex(diff, diff2, absdiff) ==
  [ok |-> TRUE,
   metrics |->
     [mse_total |-> Mul(MeanAll(diff2), IntN(3)),
      mae_total |-> Mul(MeanAll(absdiff), IntN(3)),
      mse_per_axis |-> [x |-> MeanAxis(diff2, 1), y |-> MeanAxis(diff2, 2),
                        z |-> MeanAxis(diff2, 3)],
      mae_per_axis |-> [x |-> MeanAxis(absdiff, 1), y |-> MeanAxis(absdiff, 2),
                        z |-> MeanAxis(absdiff, 3)],
      max_error |-> Sqrt(MaxNorm2(diff, Len(diff))),
      min_error |-> Sqrt(MinNorm2(diff, Len(diff))),
      std_error |-> Std(List(LAMBDA i : Sqrt(Norm2(diff[i]).a), Len(diff))),
      per_vertex_error |-> List(LAMBDA i : Sqrt(Norm2(diff[i]).a), Len(diff)),
      per_vertex_abs_error |-> absdiff]]

\* the metrics dict, from diff, diff ** 2 and np.abs(diff)
metrics_of(diff, diff2, absdiff) ==
  [ok |-> TRUE,
   metrics |->
     [mse_total |-> MeanAll(diff2),
      mae_total |-> MeanAll(absdiff),
      mse_per_axis |-> [x |-> MeanAxis(diff2, 1), y |-> MeanAxis(diff2, 2),
                        z |-> MeanAxis(diff2, 3)],
      mae_per_axis |-> [x |-> MeanAxis(absdiff, 1), y |-> MeanAxis(absdiff, 2),
                        z |-> MeanAxis(absdiff, 3)],
      max_error |-> Sqrt(MaxNorm2(diff, Len(diff))),
      min_error |-> Sqrt(MinNorm2(diff, Len(diff))),
      std_error |-> Std(List(LAMBDA i : Sqrt(Norm2(diff[i]).a), Len(diff))),
      per_vertex_error |-> List(LAMBDA i : Sqrt(Norm2(diff[i]).a), Len(diff)),
      per_vertex_abs_error |-> absdiff]]

errors_of(diff) ==
  metrics_of(diff, Table(LAMBDA i, a : Sq(diff[i][a]), Len(diff)),
             Table(LAMBDA i, a : AbsN(diff[i][a]), Len(diff)))

\* variant: the reconstruction is not subtracted
diff_of_Original(original, reconstructed) ==
  Table(LAMBDA i, a : original.rows[i][a], Len(original.rows))

\* diff = original - reconstructed
diff_of(original, reconstructed) ==
  Table(LAMBDA i, a : Sub(original.rows[i][a], reconstructed.rows[i][a]),
        Len(original.rows))

\* original.shape != reconstructed.shape
ShapeDiffers(x, y) == x.ndim # y.ndim \/ Len(x.rows) # Len(y.rows) \/ x.cols # y.cols

\* variant: the shapes are not compared; the rows both arrays have are measured
compute_errors_Unchecked(original, reconstructed) ==
  IF Len(original.rows) = 0 \/ Len(reconstructed.rows) = 0 THEN Raise("ValueError")
  ELSE errors_of(Table(LAMBDA i, a : Sub(original.rows[i][a], reconstructed.rows[i][a]),
                       IF Len(original.rows) < Len(reconstructed.rows)
                       THEN Len(original.rows) ELSE Len(reconstructed.rows)))

compute_errors(original, reconstructed) ==
  IF ShapeDiffers(original, reconstructed) THEN Raise("ValueError")
  ELSE IF Len(original.rows) = 0 THEN Raise("ValueError")   \* np.max of a zero-size array
  ELSE errors_of(diff_of(original, reconstructed))

(***************************************************************************)
(* The files of outputs/.  A .npy file holds the lattice as it is; a .json *)
(* file holds the record with its arrays turned into lists.                *)
(***************************************************************************)
ArrayKeys == {"v_min", "v_max", "center"}
ToList(v) == [list |-> v]

\* step4: value.tolist() for the ndarray values, then json.dump
save_normalization_params(params) ==
  [k \in DOMAIN params |-> IF k \in ArrayKeys THEN ToList(params[k]) ELSE params[k]]

\* variant: v_max is made from the list stored under v_min
load_normalization_params_MinTwice(json) ==
  [k \in DOMAIN json |-> IF k = "v_max" THEN json["v_min"].list
                         ELSE IF k \in ArrayKeys THEN json[k].list ELSE json[k]]

\* step5: json.load, then np.array() for the keys v_min, v_max, center
load_normalization_params(json) ==
  [k \in DOMAIN json |-> IF k \in ArrayKeys THEN json[k].list ELSE json[k]]

(***************************************************************************)
(* Inputs.                                                                 *)
(***************************************************************************)
Row(x, y, z) == <<IntN(x), IntN(y), IntN(z)>>

\* points of the input meshes: a run along the x axis and one point off it
Points == {Row(x, 0, 0) : x \in 0..MaxCoord} \cup {Row(-2, 1, 2)}

\* a four-point set with halves among its coordinates
ExampleVertices ==
  Arr(<< Row(0, 0, 0), Row(1, 1, 1),
         <<IntN(2), Num(<<1, 2>>), Num(<<3, 2>>)>>,
         <<IntN(-1), IntN(2), Num(<<1, 2>>)>> >>)

\* N x 3 vertex arrays, N = 0 included
VertexSets ==
  {Arr(rows) : rows \in UNION {[1..n -> Points] : n \in 0..MaxN}} \cup {ExampleVertices}

\* components a caller may hand to quantize, inside and outside [-1, 1]
AnyValues == {Num(<<-3, 2>>), Zero, Num(<<1, 3>>), One, Num(<<5, 2>>)}
AnyArrays == {Arr(<< <<x, y, One>> >>) : x \in AnyValues, y \in AnyValues}

\* parameter records a caller may hand to the inverse operations
AnyParams ==
  { [method |-> "minmax", v_min |-> Row(-1, 0, 0), v_max |-> Row(2, 0, 1)],
    [method |-> "sphere", center |-> Row(0, 1, 0), scale |-> IntN(2)],
    [method |-> "cube", v_min |-> Row(-1, 0, 0), v_max |-> Row(2, 0, 1)],
    [method |-> "cube", center |-> Row(0, 1, 0), scale |-> IntN(2)] }

\* arrays that are not (N, 3): shapes (3,), (1, 2), (1, 4), (0, 2) and (1, 3, 1);
\* `rows` lists the entries along the first axis
BadShapes ==
  { [ndim |-> 1, cols |-> 0, rows |-> << <<Zero>>, <<One>>, <<One>> >>],
    [ndim |-> 2, cols |-> 2, rows |-> << <<Zero, One>> >>],
    [ndim |-> 2, cols |-> 4, rows |-> << <<Zero, One, One, Zero>> >>],
    [ndim |-> 2, cols |-> 2, rows |-> <<>>],
    [ndim |-> 3, cols |-> 3, rows |-> << <<Zero, One, One>> >>] }

\* pairs handed to compute_errors: an original, and a reconstruction off from
\* it, vertex by vertex, by differences of rational length; or one of another
\* length
MetricPoints == {Row(0, 0, 0), Row(1, -1, 2)}
Diffs == {Row(0, 0, 0), Row(-1, 0, 0), Row(0, 3, 4), Row(1, 2, 2), Row(2, -3, 6)}
Originals(n) == {Arr(rows) : rows \in [1..n -> MetricPoints]}
OffBy(original, d) ==
  Arr(Table(LAMBDA i, a : Sub(original.rows[i][a], d[i][a]), Len(original.rows)))
MetricPairs ==
  UNION {{<<o, OffBy(o, d)>> : o \in Originals(n), d \in [1..n -> Diffs]}
         \cup {<<o, r>> : o \in Originals(n),
                          r \in UNION {Originals(m) : m \in (0..MaxMeshN) \ {n}}}
         : n \in 0..MaxMeshN}

Methods == {"minmax", "sphere"}
Selectors == Methods \cup {"cube"}
\* bins arguments: the small ones, 0 and 1 included, and the default
BinsSet == (0..MaxBins) \cup {BINS}

(***************************************************************************)
(* float64 arithmetic of quantize and dequantize (numpy): every operation  *)
(* returns the exact result rounded to Mantissa bits, to nearest, ties to  *)
(* even.  Only the operations the two functions apply are modelled: the    *)
(* cast of a bin number, the division and the product by bins - 1, the     *)
(* sums with 1.0, the product and quotient by 2.0, and floor.              *)
(***************************************************************************)
\* significant bits of a float64
Mantissa == 53
\* a limb is small enough for its product with a bins value to fit an integer
Limb == 2^15
LimbBits == CHOOSE b \in 1..30 : 2^b = Limb

\* Natural numbers of any size: limbs of LimbBits bits, lowest first, no
\* leading zero limb; the value of <<>> is 0.
RECURSIVE BigStrip(_)
BigStrip(x) ==
  IF x = <<>> THEN <<>>
  ELSE IF x[Len(x)] = 0 THEN BigStrip(SubSeq(x, 1, Len(x) - 1)) ELSE x

Big(k) ==
  BigStrip(<<k % Limb, (k \div Limb) % Limb, k \div (Limb * Limb)>>)

BigSmall(x) ==
  IF x = <<>> THEN 0 ELSE IF Len(x) = 1 THEN x[1] ELSE x[1] + Limb * x[2]

LimbAt(x, i) == IF i <= Len(x) THEN x[i] ELSE 0

RECURSIVE BigAddFrom(_, _, _, _)
BigAddFrom(x, y, i, c) ==
  IF i > Len(x) /\ i > Len(y)
  THEN (IF c = 0 THEN <<>> ELSE <<c>>)
  ELSE <<(LimbAt(x, i) + LimbAt(y, i) + c) % Limb>>
         \o BigAddFrom(x, y, i + 1, (LimbAt(x, i) + LimbAt(y, i) + c) \div Limb)

BigAdd(x, y) == BigAddFrom(x, y, 1, 0)

\* x - y for x >= y
RECURSIVE BigSubFrom(_, _, _, _)
BigSubFrom(x, y, i, b) ==
  IF i > Len(x) THEN <<>>
  ELSE <<(x[i] - LimbAt(y, i) - b) % Limb>>
         \o BigSubFrom(x, y, i + 1, IF x[i] - LimbAt(y, i) - b < 0 THEN 1 ELSE 0)

BigSub(x, y) == BigStrip(BigSubFrom(x, y, 1, 0))

RECURSIVE BigLessFrom(_, _, _)
BigLessFrom(x, y, i) ==
  IF i = 0 THEN FALSE
  ELSE IF LimbAt(x, i) # LimbAt(y, i) THEN LimbAt(x, i) < LimbAt(y, i)
  ELSE BigLessFrom(x, y, i - 1)

BigLess(x, y) ==
  BigLessFrom(x, y, IF Len(x) > Len(y) THEN Len(x) ELSE Len(y))

\* x * n for 0 <= n < Limb
RECURSIVE BigTimesFrom(_, _, _, _)
BigTimesFrom(x, n, i, c) ==
  IF i > Len(x) THEN (IF c = 0 THEN <<>> ELSE <<c>>)
  ELSE <<(x[i] * n + c) % Limb>>
         \o BigTimesFrom(x, n, i + 1, (x[i] * n + c) \div Limb)

BigTimes(x, n) == BigStrip(BigTimesFrom(x, n, 1, 0))

\* x divided by n for 0 < n < Limb: the quotient's limbs (highest first
\* while dividing) and the remainder
RECURSIVE BigDivFrom(_, _, _, _)
BigDivFrom(x, n, i, r) ==
  IF i = 0 THEN [q |-> <<>>, r |-> r]
  ELSE LET rest == BigDivFrom(x, n, i - 1, (r * Limb + x[i]) % n)
       IN  [q |-> rest.q \o <<(r * Limb + x[i]) \div n>>, r |-> rest.r]

BigDiv(x, n) ==
  LET d == BigDivFrom(x, n, Len(x), 0)
  IN  [q |-> BigStrip(d.q), r |-> d.r]

Zeros(k) == [i \in 1..k |-> 0]

BitLength(x) ==
  IF x = <<>> THEN 0
  ELSE LimbBits * (Len(x) - 1)
         + (CHOOSE b \in 1..LimbBits : 2^(b - 1) <= x[Len(x)] /\ x[Len(x)] < 2^b)

ShiftLeft(x, k) ==
  IF x = <<>> THEN <<>>
  ELSE BigTimes(Zeros(k \div LimbBits) \o x, 2^(k % LimbBits))

\* x shifted right by k bits, and whether a one was shifted out
ShiftRight(x, k) ==
  LET limbs == IF k \div LimbBits > Len(x) THEN Len(x) ELSE k \div LimbBits
      d     == BigDiv(SubSeq(x, limbs + 1, Len(x)), 2^(k % LimbBits))
  IN  [q     |-> d.q,
       inexact |-> d.r # 0 \/ \E i \in 1..limbs : x[i] # 0]

Odd(x) == x # <<>> /\ x[1] % 2 = 1

\* binary64: s * m * 2^e with m below 2^Mantissa, rounded to nearest, ties
\* to even
F64(s, m, e) == [s |-> s, m |-> m, e |-> e]

F64Int(k) == F64(IF k < 0 THEN -1 ELSE 1, Big(IF k < 0 THEN -k ELSE k), 0)

RoundOff(s, m, e, d, inexact) ==
  LET t  == ShiftRight(m, d - 1)
      h  == BigDiv(t.q, 2)
      up == h.r = 1 /\ (t.inexact \/ inexact \/ Odd(h.q))
  IN  F64(s, IF up THEN BigAdd(h.q, <<1>>) ELSE h.q, e + d)

Round(s, m, e, inexact) ==
  IF BitLength(m) <= Mantissa THEN F64(s, m, e)
  ELSE RoundOff(s, m, e, BitLength(m) - Mantissa, inexact)

AddAligned(x, y, mx, my, e) ==
  IF x.s = y.s THEN Round(x.s, BigAdd(mx, my), e, FALSE)
  ELSE IF BigLess(mx, my) THEN Round(y.s, BigSub(my, mx), e, FALSE)
  ELSE Round(x.s, BigSub(mx, my), e, FALSE)

F64Add(x, y) ==
  IF x.m = <<>> THEN y
  ELSE IF y.m = <<>> THEN x
  ELSE IF x.e <= y.e THEN AddAligned(x, y, x.m, ShiftLeft(y.m, y.e - x.e), x.e)
  ELSE AddAligned(x, y, ShiftLeft(x.m, x.e - y.e), y.m, y.e)

F64Times(x, n) == Round(x.s, BigTimes(x.m, n), x.e, FALSE)

\* the quotient is computed from the dividend extended by 5 limbs, which
\* leaves more than Mantissa bits of it for any divisor below Limb
F64Quotient(x, d) == Round(x.s, d.q, x.e - 5 * LimbBits, d.r # 0)

F64Over(x, n) ==
  IF x.m = <<>> THEN x ELSE F64Quotient(x, BigDiv(Zeros(5) \o x.m, n))

F64Twice(x) == F64(x.s, x.m, x.e + 1)

F64Half(x) == F64(x.s, x.m, x.e - 1)

F64FloorDown(x, t) ==
  IF x.s = 1 THEN BigSmall(t.q)
  ELSE -(BigSmall(t.q) + IF t.inexact THEN 1 ELSE 0)

F64Floor(x) ==
  IF x.e >= 0 THEN x.s * BigSmall(ShiftLeft(x.m, x.e))
  ELSE F64FloorDown(x, ShiftRight(x.m, -x.e))

\* one element of dequantize(q, bins, method), q[i][a] = k, in float64
dequantize64(k, bins, method) ==
  IF method = "minmax" THEN F64Over(F64Int(k), bins - 1)
  ELSE F64Add(F64Twice(F64Over(F64Int(k), bins - 1)), F64Int(-1))

\* one element of quantize(normalized, bins, method), normalized[i][a] = x in
\* float64
quantize64(x, bins, method) ==
  Clip(F64Floor(F64Times(IF method = "minmax" THEN x
                         ELSE F64Half(F64Add(x, F64Int(1))), bins - 1)),
       0, bins - 1)

(***************************************************************************)
(* State: the values a caller of the codec holds between calls.            *)
(***************************************************************************)
VARIABLES
  vertices,       \* the vertex array to encode
  normalized,     \* output of norm_minmax / norm_sphere
  params,         \* the parameter record
  q,              \* output of quantize
  bins, method,   \* arguments of the quantize call
  dequantized,    \* output of dequantize
  dbins, dmethod, \* arguments of the dequantize call
  reconstructed,  \* output of denorm_minmax / denorm_sphere / denormalize
  call,           \* the function called last
  raised,         \* the exception it raised, "" if none
  metrics,        \* output of compute_errors
  pc,
  outputs,        \* the files of outputs/ for the mesh: lattice, record, reconstruction
  enc,            \* step4: the method process_mesh_file handles next
  dec,            \* step5: the method process_mesh_reconstruction handles next
  loaded,         \* step5: the record load_normalization_params returned, per method
  lattice64,      \* a lattice point decoded and encoded again in float64
  report,         \* step8: the metrics create_report_text loaded and what it wrote
  step6,          \* step6: the method handled next, and what load_reconstructed_mesh gave
  step7,          \* step7: the same for load_reconstructed_vertices
  jobs,           \* two mesh files in process: the local variables of each run
  disk            \* the files of outputs/ of those runs, by base name

caller == <<normalized, params, q, bins, method, dequantized,
            dbins, dmethod, reconstructed, call, raised, metrics, pc>>
side == <<lattice64, report, step6, step7, jobs, disk>>
pipeline == <<outputs, enc, dec, loaded, side>>
codec == <<vertices, caller, outputs, enc, dec, loaded>>
vars == <<vertices, normalized, params, q, bins, method, dequantized,
          dbins, dmethod, reconstructed, call, raised, metrics, pc,
          outputs, enc, dec, loaded, lattice64, report, step6, step7, jobs, disk>>

NoFiles == [m \in Methods |-> NoArray]
NoRecords == [m \in Methods |-> NoParams]
EmptyDir == [quantized |-> NoFiles, params |-> NoRecords, reconstructed |-> NoFiles]

\* nothing has been called yet
Uncalled ==
  /\ bins = 0 /\ method = "none"
  /\ dequantized = NoArray /\ dbins = 0 /\ dmethod = "none"
  /\ call = "none" /\ raised = "" /\ metrics = NoMetrics

Fresh == q = NoArray /\ reconstructed = NoArray /\ Uncalled

\* the caller holds a vertex array, or a normalized array with a record, or a
\* lattice, of any shape, or a vertex array and a reconstruction of it
\* the variables of the other scripts and experiments, at rest
NoLattice == [q0 |-> <<>>, q |-> <<>>, bins |-> 0, method |-> "none",
              normalized |-> <<>>, passes |-> 0]
NoReport == [metrics_data |-> <<>>, todo |-> <<>>, text |-> <<>>, raised |-> ""]
NoRun == [at |-> "none", result |-> [ok |-> FALSE, error |-> ""]]
NoJobs == jobs = <<>> /\ disk = <<>>
Idle == lattice64 = NoLattice /\ report = NoReport /\ step6 = NoRun /\ step7 = NoRun
        /\ NoJobs

Init ==
  /\ Uncalled /\ Idle
  /\ outputs = EmptyDir /\ enc = "none" /\ dec = "none" /\ loaded = NoRecords
  /\ \/ /\ vertices \in VertexSets \cup BadShapes
        /\ normalized = NoArray /\ params = NoParams /\ q = NoArray
        /\ reconstructed = NoArray
        /\ pc = "loaded"
     \/ /\ vertices = NoArray
        /\ normalized \in AnyArrays \cup BadShapes /\ params \in AnyParams
        /\ q = NoArray /\ reconstructed = NoArray
        /\ pc = "normalized"
     \/ /\ vertices = NoArray
        /\ normalized = NoArray /\ params \in AnyParams
        /\ q \in BadShapes /\ reconstructed = NoArray
        /\ pc = "quantized"
     \/ /\ \E pair \in MetricPairs : vertices = pair[1] /\ reconstructed = pair[2]
        /\ normalized = NoArray /\ params = NoParams /\ q = NoArray
        /\ pc = "reconstructed"

\* the call raised: nothing is returned
Fail(fn, r) ==
  /\ call' = fn /\ raised' = r.error /\ pc' = "failed"

\* normalized, params = norm_func(vertices)
NormalizeReturns(fn, r) ==
  IF r.ok
  THEN /\ normalized' = r.normalized /\ params' = r.params
       /\ call' = fn /\ raised' = "" /\ pc' = "normalized"
  ELSE /\ Fail(fn, r) /\ UNCHANGED <<normalized, params>>

\* variant: the normalized coordinates are written into the caller's array
Normalize_InPlace(m) ==
  /\ pc = "loaded"
  /\ IF m = "minmax" THEN NormalizeReturns("norm_minmax", norm_minmax(vertices))
                     ELSE NormalizeReturns("norm_sphere", norm_sphere(vertices))
  /\ vertices' = IF pc' = "normalized" THEN normalized' ELSE vertices
  /\ UNCHANGED <<pipeline, metrics, q, bins, method, dequantized, dbins, dmethod, reconstructed>>

Normalize(m) ==
  /\ pc = "loaded"
  /\ IF m = "minmax" THEN NormalizeReturns("norm_minmax", norm_minmax(vertices))
                     ELSE NormalizeReturns("norm_sphere", norm_sphere(vertices))
  /\ UNCHANGED <<vertices, pipeline, metrics, q, bins, method, dequantized, dbins, dmethod, reconstructed>>

\* reconstructed = denorm_minmax(normalized, params) / denorm_sphere(normalized, params)
DenormReturns(fn, r, at) ==
  IF r.ok
  THEN /\ reconstructed' = r.reconstructed
       /\ call' = fn /\ raised' = "" /\ pc' = at
  ELSE /\ Fail(fn, r) /\ UNCHANGED reconstructed

Denorm(m) ==
  /\ pc = "normalized"
  /\ IF m = "minmax"
     THEN DenormReturns("denorm_minmax", denorm_minmax(normalized, params), "roundtrip")
     ELSE DenormReturns("denorm_sphere", denorm_sphere(normalized, params), "roundtrip")
  /\ UNCHANGED <<vertices, pipeline, metrics, normalized, params, q, bins, method, dequantized, dbins, dmethod>>

\* the default bins is tried on arrays of rational components, which keeps the
\* exact arithmetic of the model within TLC's integers
Rational(x) ==
  \A i \in 1..Len(x.rows) : \A j \in 1..Len(x.rows[i]) : x.rows[i][j].r = R0
Tried(b, x) == b = BINS => Rational(x)

\* q = quantize(normalized, bins=b, method=m)
QuantizeReturns(r) ==
  IF r.ok
  THEN /\ q' = r.q /\ call' = "quantize" /\ raised' = "" /\ pc' = "quantized"
  ELSE /\ Fail("quantize", r) /\ UNCHANGED q

Quantize(b, m) ==
  /\ pc = "normalized" /\ Tried(b, normalized)
  /\ QuantizeReturns(quantize(normalized, b, m))
  /\ bins' = b /\ method' = m
  /\ UNCHANGED <<vertices, pipeline, metrics, normalized, params, dequantized, dbins, dmethod, reconstructed>>

\* normalized = dequantize(q, bins=b, method=m), step4's function
DequantizeReturns(fn, r) ==
  IF r.ok
  THEN /\ dequantized' = r.normalized
       /\ call' = fn /\ raised' = "" /\ pc' = "dequantized"
  ELSE /\ Fail(fn, r) /\ UNCHANGED dequantized

\* variant: a bins other than the one quantize was given is refused
Dequantize4_SameBins(b, m) ==
  /\ pc = "quantized"
  /\ DequantizeReturns("dequantize",
                       IF b # bins THEN Raise("ValueError") ELSE dequantize(q, b, m))
  /\ dbins' = b /\ dmethod' = m
  /\ UNCHANGED <<vertices, pipeline, metrics, normalized, params, q, bins, method, reconstructed>>

Dequantize4(b, m) ==
  /\ pc = "quantized"
  /\ DequantizeReturns("dequantize", dequantize(q, b, m))
  /\ dbins' = b /\ dmethod' = m
  /\ UNCHANGED <<vertices, pipeline, metrics, normalized, params, q, bins, method, reconstructed>>

\* normalized = dequantize(q, bins=b, method=m), step5's function
Dequantize5(b, m) ==
  /\ pc = "quantized"
  /\ DequantizeReturns("dequantize5", dequantize5(q, b, m))
  /\ dbins' = b /\ dmethod' = m
  /\ UNCHANGED <<vertices, pipeline, metrics, normalized, params, q, bins, method, reconstructed>>

\* reconstructed = denormalize(normalized, params), step5's dispatcher
Denormalize ==
  /\ pc = "dequantized"
  /\ DenormReturns("denormalize", denormalize(dequantized, params), "done")
  /\ UNCHANGED <<vertices, pipeline, metrics, normalized, params, q, bins, method, dequantized, dbins, dmethod>>

\* metrics = compute_errors(original_vertices, reconstructed_vertices)
ComputeErrorsReturns(r) ==
  IF r.ok
  THEN /\ metrics' = r.metrics
       /\ call' = "compute_errors" /\ raised' = "" /\ pc' = "measured"
  ELSE /\ Fail("compute_errors", r) /\ UNCHANGED metrics

ComputeErrors ==
  /\ pc = "reconstructed"
  /\ ComputeErrorsReturns(compute_errors(vertices, reconstructed))
  /\ UNCHANGED <<vertices, pipeline, normalized, params, q, bins, method,
                 dequantized, dbins, dmethod, reconstructed>>

Next ==
  \/ ComputeErrors
  \/ \E m \in Methods : Normalize(m)
  \/ \E m \in Methods : Denorm(m)
  \/ \E b \in BinsSet, m \in Selectors : Quantize(b, m)
  \/ \E b \in BinsSet, m \in Selectors : Dequantize4(b, m)
  \/ \E b \in BinsSet, m \in Selectors : Dequantize5(b, m)
  \/ Denormalize

Spec == Init /\ [][Next]_vars

(***************************************************************************)
(* step4 and step5 run on one mesh file: process_mesh_file and             *)
(* process_mesh_reconstruction, one loop iteration per step, sharing the   *)
(* outputs/ directory.                                                     *)
(***************************************************************************)
\* the meshes load_mesh may return
Meshes == {Arr(rows) : rows \in UNION {[1..n -> Points] : n \in 1..MaxMeshN}}

\* lattice files found in outputs/ before the run: one bin triple per vertex
StoredLattice(n) == Arr(Table(LAMBDA i, a : (a - 1) * 511 + (a - 1) \div 2, n))

\* .json files found in outputs/ before the run
StoredRecords == {save_normalization_params(p) : p \in AnyParams}

\* what outputs/ may hold when the scripts start
StartDirs(n) ==
  {EmptyDir,
   [EmptyDir EXCEPT !.quantized = [m \in Methods |-> StoredLattice(n)]],
   [EmptyDir EXCEPT !.quantized = [m \in Methods |-> StoredLattice(n + 1)],
                    !.params = [m \in Methods |-> CHOOSE r \in StoredRecords : r.method = m]]}
  \cup {[EmptyDir EXCEPT !.quantized = [m \in Methods |-> StoredLattice(n)],
                         !.params = r] : r \in [Methods -> StoredRecords]}

\* step4 and step5 are started on a mesh file
PipeStarted ==
  /\ vertices \in Meshes
  /\ normalized = NoArray /\ params = NoParams /\ pc = "none" /\ Fresh
  /\ outputs \in StartDirs(Len(vertices.rows))
  /\ enc = "minmax" /\ dec = "minmax" /\ loaded = NoRecords

InitPipe == PipeStarted /\ Idle

\* the method after m in the loop `for method_name in methods`
NextMethod(m) == IF m = "minmax" THEN "sphere" ELSE "done"

\* q.min() and q.max() over the whole lattice
LatticeMin(x) == CHOOSE k \in {x.rows[i][a] : i \in Idx(x), a \in Axes} :
                   \A i \in Idx(x) : \A a \in Axes : k <= x.rows[i][a]
LatticeMax(x) == CHOOSE k \in {x.rows[i][a] : i \in Idx(x), a \in Axes} :
                   \A i \in Idx(x) : \A a \in Axes : k >= x.rows[i][a]

\* process_mesh_file from the range check on: n is what norm_func returned,
\* r what quantize returned
Step4Quantized(n, r) ==
  IF ~n.ok \/ ~r.ok
  THEN enc' = "raised" /\ UNCHANGED outputs
  ELSE IF LatticeMin(r.q) < 0 \/ LatticeMax(r.q) >= BINS
  THEN enc' = "exit" /\ UNCHANGED outputs
  ELSE /\ outputs' = [outputs EXCEPT
            !.quantized[enc] = r.q,
            !.params[enc] = save_normalization_params(n.params)]
       /\ enc' = NextMethod(enc)

\* q = quantize(normalized, bins=BINS, method=method_name)
Step4Normalized(n) == Step4Quantized(n, quantize(n.normalized, BINS, enc))

\* one iteration of the loop of process_mesh_file
Step4 ==
  /\ enc \in Methods
  /\ IF enc = "minmax" THEN Step4Normalized(norm_minmax(vertices))
                       ELSE Step4Normalized(norm_sphere(vertices))
  /\ UNCHANGED <<vertices, caller, dec, loaded, side>>

\* process_mesh_reconstruction after the decode: d is what dequantize returned,
\* r what denormalize returned
Step5Decoded(record, d, r) ==
  /\ loaded' = [loaded EXCEPT ![dec] = record]
  /\ IF ~d.ok \/ ~r.ok
     THEN dec' = "raised" /\ UNCHANGED outputs
     ELSE IF Len(r.reconstructed.rows) # Len(vertices.rows)
     THEN dec' = "exit" /\ UNCHANGED outputs
     ELSE /\ outputs' = [outputs EXCEPT !.reconstructed[dec] = r.reconstructed]
          /\ dec' = NextMethod(dec)

\* reconstructed = denormalize(normalized, params)
Step5Dequantized(record, d) == Step5Decoded(record, d, denormalize(d.normalized, record))

\* normalized = dequantize(q, bins=BINS, method=method_name)
Step5Loaded(lattice, record) ==
  Step5Dequantized(record, dequantize5(lattice, BINS, dec))

\* variant: without a record for the method, the other method's is loaded
Step5_AnyRecord ==
  /\ dec \in Methods
  /\ IF outputs.quantized[dec] = NoArray
     THEN dec' = "exit" /\ UNCHANGED <<outputs, loaded>>
     ELSE IF Len(outputs.quantized[dec].rows) # Len(vertices.rows)
     THEN dec' = "exit" /\ UNCHANGED <<outputs, loaded>>
     ELSE IF \A m \in Methods : outputs.params[m] = NoParams
     THEN dec' = "exit" /\ UNCHANGED <<outputs, loaded>>
     ELSE Step5Loaded(outputs.quantized[dec],
                      load_normalization_params(
                        IF outputs.params[dec] # NoParams THEN outputs.params[dec]
                        ELSE outputs.params[CHOOSE m \in Methods :
                                              outputs.params[m] # NoParams]))
  /\ UNCHANGED <<vertices, caller, enc, side>>

\* one iteration of the loop of process_mesh_reconstruction
Step5 ==
  /\ dec \in Methods
  /\ IF outputs.quantized[dec] = NoArray                      \* sys.exit(1): no .npy
     THEN dec' = "exit" /\ UNCHANGED <<outputs, loaded>>
     ELSE IF Len(outputs.quantized[dec].rows) # Len(vertices.rows)  \* sys.exit(1): shape
     THEN dec' = "exit" /\ UNCHANGED <<outputs, loaded>>
     ELSE IF outputs.params[dec] = NoParams                   \* sys.exit(1): no .json
     THEN dec' = "exit" /\ UNCHANGED <<outputs, loaded>>
     ELSE Step5Loaded(outputs.quantized[dec],
                      load_normalization_params(outputs.params[dec]))
  /\ UNCHANGED <<vertices, caller, enc, side>>

NextPipe == Step4 \/ Step5

SpecPipe == InitPipe /\ [][NextPipe]_vars

(***************************************************************************)
(* step6 and step7 decode the files of outputs/ again, each with its own   *)
(* function, one call per method, while step4 and step5 run on the mesh.   *)
(***************************************************************************)
\* sys.exit(1)
Exited == [ok |-> FALSE, error |-> "SystemExit"]

\* variant: step6 decodes with half the bins
load_reconstructed_mesh_HalfBins(dir, name) ==
  IF dir.quantized[name] = NoArray THEN Exited
  ELSE IF dir.params[name] = NoParams THEN Exited
  ELSE LET d == dequantize(dir.quantized[name], 512, name)
           record == load_normalization_params(dir.params[name])
       IN  IF ~d.ok THEN d
           ELSE IF name = "minmax" THEN denorm_minmax(d.normalized, record)
           ELSE IF name = "sphere" THEN denorm_sphere(d.normalized, record)
           ELSE Raise("ValueError")

\* step6: dequantize(q, bins=1024, method=method), then the inverse the
\* name argument names
load_reconstructed_mesh(dir, name) ==
  IF dir.quantized[name] = NoArray THEN Exited
  ELSE IF dir.params[name] = NoParams THEN Exited
  ELSE LET d == dequantize(dir.quantized[name], 1024, name)
           record == load_normalization_params(dir.params[name])
       IN  IF ~d.ok THEN d
           ELSE IF name = "minmax" THEN denorm_minmax(d.normalized, record)
           ELSE IF name = "sphere" THEN denorm_sphere(d.normalized, record)
           ELSE Raise("ValueError")

\* step7: the same statements as step6's function
load_reconstructed_vertices(dir, name) ==
  IF dir.quantized[name] = NoArray THEN Exited
  ELSE IF dir.params[name] = NoParams THEN Exited
  ELSE LET d == dequantize(dir.quantized[name], 1024, name)
           record == load_normalization_params(dir.params[name])
       IN  IF ~d.ok THEN d
           ELSE IF name = "minmax" THEN denorm_minmax(d.normalized, record)
           ELSE IF name = "sphere" THEN denorm_sphere(d.normalized, record)
           ELSE Raise("ValueError")

\* the loop over the methods after a call: r is what the call gave
Looped(run, r) ==
  [at |-> IF r.ok THEN NextMethod(run.at)
          ELSE IF r = Exited THEN "exit" ELSE "raised",
   result |-> r]

\* one call of load_reconstructed_mesh in step6's loop over the methods
Step6 ==
  /\ step6.at \in Methods
  /\ step6' = Looped(step6, load_reconstructed_mesh(outputs, step6.at))
  /\ UNCHANGED <<codec, lattice64, report, step7, jobs, disk>>

\* one call of load_reconstructed_vertices in step7's loop over the methods
Step7 ==
  /\ step7.at \in Methods
  /\ step7' = Looped(step7, load_reconstructed_vertices(outputs, step7.at))
  /\ UNCHANGED <<codec, lattice64, report, step6, jobs, disk>>

InitDecode ==
  /\ PipeStarted
  /\ lattice64 = NoLattice /\ report = NoReport /\ NoJobs
  /\ step6 = [NoRun EXCEPT !.at = "minmax"] /\ step7 = [NoRun EXCEPT !.at = "minmax"]

NextDecode == Step4 \/ Step5 \/ Step6 \/ Step7

SpecDecode == InitDecode /\ [][NextDecode]_vars

(***************************************************************************)
(* Two mesh files are run through process_mesh_file and then               *)
(* process_mesh_reconstruction at the same time, into the same outputs/    *)
(* directory.  A step is one statement of the loop bodies: the normalize,  *)
(* quantize and persist steps of the encode, the load, dequantize,         *)
(* denormalize and save steps of the decode.  Each run has its own local   *)
(* variables; the files are named after the base name of the mesh file.    *)
(***************************************************************************)
\* the two mesh files
ObjFiles == <<[dir |-> "8samples", stem |-> "branch"],
              [dir |-> "8samples", stem |-> "cylinder"]>>
Runs == 1..Len(ObjFiles)

\* variant: the files are named after the directory of the mesh file
base_name_Parent(obj_file) == obj_file.dir

\* base_name = Path(obj_file).stem
base_name(obj_file) == obj_file.stem

\* the names a file of outputs/ can start with
FilePrefixes == {ObjFiles[j].dir : j \in Runs} \cup {ObjFiles[j].stem : j \in Runs}

\* the vertex sets of the second mesh file
OtherMeshes == {Arr(<<Row(-2, 1, 2), Row(0, 0, 0)>>), Arr(<<Row(1, 0, 0)>>)}

\* norm_func of the pair (method_name, norm_func)
norm_func(m, v) == IF m = "minmax" THEN norm_minmax(v) ELSE norm_sphere(v)

StartedJob(f, v) ==
  [obj_file |-> f, vertices |-> v, at |-> "normalize", m |-> "minmax",
   normalized |-> NoArray, params |-> NoParams, q |-> NoArray,
   reconstructed |-> NoArray]

InitTwo ==
  /\ vertices = NoArray /\ normalized = NoArray /\ params = NoParams
  /\ pc = "none" /\ Fresh
  /\ outputs = EmptyDir /\ enc = "none" /\ dec = "none" /\ loaded = NoRecords
  /\ lattice64 = NoLattice /\ report = NoReport /\ step6 = NoRun /\ step7 = NoRun
  /\ \E v \in Meshes : \E w \in OtherMeshes :
       /\ v # w
       /\ jobs = <<StartedJob(ObjFiles[1], v), StartedJob(ObjFiles[2], w)>>
  /\ disk = [n \in FilePrefixes |-> EmptyDir]

\* the run ends: sys.exit(1) or an exception
Stopped(job, how) == [job EXCEPT !.at = how]

\* normalized, params = norm_func(vertices)
JobNormalized(job, r) ==
  IF ~r.ok THEN Stopped(job, "raised")
  ELSE [job EXCEPT !.normalized = r.normalized, !.params = r.params, !.at = "quantize"]

JobNormalize(j) ==
  /\ jobs[j].at = "normalize"
  /\ jobs' = [jobs EXCEPT ![j] = JobNormalized(@, norm_func(@.m, @.vertices))]
  /\ UNCHANGED <<codec, lattice64, report, step6, step7, disk>>

\* q = quantize(normalized, bins=BINS, method=method_name), and the range check
JobQuantized(job, r) ==
  IF ~r.ok THEN Stopped(job, "raised")
  ELSE IF LatticeMin(r.q) < 0 \/ LatticeMax(r.q) >= BINS THEN Stopped(job, "exit")
  ELSE [job EXCEPT !.q = r.q, !.at = "persist"]

JobQuantize(j) ==
  /\ jobs[j].at = "quantize"
  /\ jobs' = [jobs EXCEPT ![j] = JobQuantized(@, quantize(@.normalized, BINS, @.m))]
  /\ UNCHANGED <<codec, lattice64, report, step6, step7, disk>>

\* save_quantized_array and save_normalization_params; then the next method,
\* and after the last one the decode
JobPersist(j) ==
  /\ jobs[j].at = "persist"
  /\ disk' = [disk EXCEPT ![base_name(jobs[j].obj_file)] =
                [@ EXCEPT !.quantized[jobs[j].m] = jobs[j].q,
                          !.params[jobs[j].m] = save_normalization_params(jobs[j].params)]]
  /\ jobs' = [jobs EXCEPT ![j] =
                IF @.m = "minmax" THEN [@ EXCEPT !.m = "sphere", !.at = "normalize"]
                ELSE [@ EXCEPT !.m = "minmax", !.at = "load"]]
  /\ UNCHANGED <<codec, lattice64, report, step6, step7>>

\* load_quantized_array, the shape check and load_normalization_params
JobLoaded(job, dir) ==
  IF dir.quantized[job.m] = NoArray THEN Stopped(job, "exit")
  ELSE IF Len(dir.quantized[job.m].rows) # Len(job.vertices.rows) THEN Stopped(job, "exit")
  ELSE IF dir.params[job.m] = NoParams THEN Stopped(job, "exit")
  ELSE [job EXCEPT !.q = dir.quantized[job.m],
                   !.params = load_normalization_params(dir.params[job.m]),
                   !.at = "dequantize"]

JobLoad(j) ==
  /\ jobs[j].at = "load"
  /\ jobs' = [jobs EXCEPT ![j] = JobLoaded(@, disk[base_name(@.obj_file)])]
  /\ UNCHANGED <<codec, lattice64, report, step6, step7, disk>>

\* normalized = dequantize(q, bins=BINS, method=method_name)
JobDequantized(job, r) ==
  IF ~r.ok THEN Stopped(job, "raised")
  ELSE [job EXCEPT !.normalized = r.normalized, !.at = "denormalize"]

JobDequantize(j) ==
  /\ jobs[j].at = "dequantize"
  /\ jobs' = [jobs EXCEPT ![j] = JobDequantized(@, dequantize5(@.q, BINS, @.m))]
  /\ UNCHANGED <<codec, lattice64, report, step6, step7, disk>>

\* reconstructed = denormalize(normalized, params), and the shape check
JobDenormalized(job, r) ==
  IF ~r.ok THEN Stopped(job, "raised")
  ELSE IF Len(r.reconstructed.rows) # Len(job.vertices.rows) THEN Stopped(job, "exit")
  ELSE [job EXCEPT !.reconstructed = r.reconstructed, !.at = "save"]

JobDenormalize(j) ==
  /\ jobs[j].at = "denormalize"
  /\ jobs' = [jobs EXCEPT ![j] = JobDenormalized(@, denormalize(@.normalized, @.params))]
  /\ UNCHANGED <<codec, lattice64, report, step6, step7, disk>>

\* save_reconstructed_mesh; then the next method
JobSave(j) ==
  /\ jobs[j].at = "save"
  /\ disk' = [disk EXCEPT ![base_name(jobs[j].obj_file)] =
                [@ EXCEPT !.reconstructed[jobs[j].m] = jobs[j].reconstructed]]
  /\ jobs' = [jobs EXCEPT ![j] =
                IF @.m = "minmax" THEN [@ EXCEPT !.m = "sphere", !.at = "load"]
                ELSE [@ EXCEPT !.at = "done"]]
  /\ UNCHANGED <<codec, lattice64, report, step6, step7>>

NextTwo ==
  \E j \in Runs :
    \/ JobNormalize(j) \/ JobQuantize(j) \/ JobPersist(j)
    \/ JobLoad(j) \/ JobDequantize(j) \/ JobDenormalize(j) \/ JobSave(j)

SpecTwo == InitTwo /\ [][NextTwo]_vars

(***************************************************************************)
(* A lattice point is decoded by dequantize and encoded again by quantize, *)
(* with the same bins and method, in float64, any number of times.         *)
(***************************************************************************)
MaxLevel == 15     \* largest bin number of a lattice point, besides bins - 1
MaxPasses == 2     \* most decode and encode passes over a lattice point

\* bins arguments of the float64 runs: the default and small ones
LatticeBins == {2, 3, 7, 23, BINS}

\* lattice points of [0, bins - 1]: both ends and a level between
LatticePoints(b) ==
  {<<0, k, b - 1>> : k \in {l \in 0..MaxLevel : l <= b - 1}}

InitLattice ==
  /\ vertices = NoArray /\ normalized = NoArray /\ params = NoParams
  /\ pc = "none" /\ Fresh
  /\ outputs = EmptyDir /\ enc = "none" /\ dec = "none" /\ loaded = NoRecords
  /\ report = NoReport /\ step6 = NoRun /\ step7 = NoRun /\ NoJobs
  /\ \E b \in LatticeBins : \E m \in Methods : \E p \in LatticePoints(b) :
       lattice64 = [NoLattice EXCEPT !.q0 = p, !.q = p, !.bins = b, !.method = m]

\* normalized = dequantize(q, bins, method)
Dequantize64 ==
  /\ lattice64.normalized = <<>> /\ lattice64.passes < MaxPasses
  /\ lattice64' = [lattice64 EXCEPT !.normalized =
       [a \in Axes |-> dequantize64(lattice64.q[a], lattice64.bins, lattice64.method)]]
  /\ UNCHANGED <<codec, report, step6, step7, jobs, disk>>

\* q = quantize(normalized, bins, method)
Quantize64 ==
  /\ lattice64.normalized # <<>>
  /\ lattice64' = [lattice64 EXCEPT
       !.q = [a \in Axes |-> quantize64(lattice64.normalized[a], lattice64.bins,
                                        lattice64.method)],
       !.normalized = <<>>,
       !.passes = @ + 1]
  /\ UNCHANGED <<codec, report, step6, step7, jobs, disk>>

NextLattice == Dequantize64 \/ Quantize64

SpecLattice == InitLattice /\ [][NextLattice]_vars

(***************************************************************************)
(* step8: create_report_text walks the meshes that have metrics files, in  *)
(* sorted order, and writes for each the comparison of the two methods.    *)
(***************************************************************************)
\* names of the meshes, sorted
MeshNames == <<"branch", "cylinder">>

\* total MSE values json.load may return: non-negative floats, 0 included
MseValues == {R0, <<1, 4>>, R1}

\* no <mesh>_metrics_<method>.json in outputs/
NoFile == <<>>

\* metrics_data as load_all_metrics returns it: mse_total per mesh and method
MetricsData == [1..Len(MeshNames) -> [Methods -> MseValues \cup {NoFile}]]

\* ratio = mse_sp / mse_mm if mse_mm > 0 else 0
Ratio(mse_mm, mse_sp) == IF RLt(R0, mse_mm) THEN RDiv(mse_sp, mse_mm) ELSE R0

\* the comparison line of one mesh, or the exception the f-string raises
MethodComparison(mse_mm, mse_sp) ==
  IF RLt(mse_mm, mse_sp)
  THEN [ok |-> TRUE, better |-> "minmax", times |-> Ratio(mse_mm, mse_sp)]
  ELSE IF Ratio(mse_mm, mse_sp) = R0
  THEN [ok |-> FALSE, error |-> "ZeroDivisionError"]
  ELSE [ok |-> TRUE, better |-> "sphere", times |-> RDiv(R1, Ratio(mse_mm, mse_sp))]

InitReport ==
  /\ vertices = NoArray /\ normalized = NoArray /\ params = NoParams
  /\ pc = "none" /\ Fresh
  /\ outputs = EmptyDir /\ enc = "none" /\ dec = "none" /\ loaded = NoRecords
  /\ lattice64 = NoLattice /\ step6 = NoRun /\ step7 = NoRun /\ NoJobs
  /\ \E d \in MetricsData :
       report = [NoReport EXCEPT !.metrics_data = d,
                                 !.todo = [i \in 1..Len(MeshNames) |-> i]]

\* the body of `for mesh_name in sorted_meshes` from the comparison on: c is
\* what the comparison gave
ReportCompared(c) ==
  IF c.ok
  THEN report' = [report EXCEPT !.todo = Tail(@), !.text = Append(@, c)]
  ELSE report' = [report EXCEPT !.todo = <<>>, !.raised = c.error]

\* one iteration of `for mesh_name in sorted_meshes`
ReportMesh ==
  /\ report.todo # <<>> /\ report.raised = ""
  /\ LET mesh_metrics == report.metrics_data[Head(report.todo)]
     IN  IF \A m \in Methods : mesh_metrics[m] # NoFile
         THEN ReportCompared(MethodComparison(mesh_metrics["minmax"],
                                              mesh_metrics["sphere"]))
         ELSE report' = [report EXCEPT !.todo = Tail(@)]
  /\ UNCHANGED <<codec, lattice64, step6, step7, jobs, disk>>

NextReport == ReportMesh

SpecReport == InitReport /\ [][NextReport]_vars

(***************************************************************************)
(* Vocabulary of the properties, stated on the input itself.               *)
(***************************************************************************)
HasInput == ShapeOK(vertices) /\ Len(vertices.rows) > 0

\* least and largest source value on axis a
AxisMin(a) == CHOOSE m \in {vertices.rows[i][a] : i \in Idx(vertices)} :
                \A j \in Idx(vertices) : Leq(m, vertices.rows[j][a])
AxisMax(a) == CHOOSE m \in {vertices.rows[i][a] : i \in Idx(vertices)} :
                \A j \in Idx(vertices) : Leq(vertices.rows[j][a], m)
Degenerate(a) == AxisMin(a) = AxisMax(a)
Coincident == \A i \in Idx(vertices) : vertices.rows[i] = vertices.rows[1]

\* norm_minmax / norm_sphere has just returned its output for `vertices`
NormalizedBy(m) == pc = "normalized" /\ HasInput /\ params.method = m

\* the whole chain was run on `vertices` with one method and one bins
MatchedChain(m) ==
  /\ pc = "done" /\ HasInput /\ params.method = m
  /\ method = m /\ dmethod = m /\ dbins = bins

(***************************************************************************)
(* C1: every component of the lattice returned by quantize is an integer   *)
(* in [0, bins-1], whatever the input array, bins >= 2 and method.         *)
(***************************************************************************)
C1_LatticeInRange ==
  (call = "quantize" /\ raised = "" /\ bins >= 2) =>
    \A i \in Idx(q) : \A a \in Axes : q.rows[i][a] \in 0..(bins - 1)

\* quantize has returned for an input with a component below and one above the range
C1_Witness ==
  /\ pc = "quantized" /\ bins >= 2
  /\ \E i \in Idx(normalized) : \E a, c \in Axes :
       /\ FloorBin(Normalized01(normalized.rows[i][a], method), bins) < 0
       /\ FloorBin(Normalized01(normalized.rows[i][c], method), bins) > bins - 1

(***************************************************************************)
(* C2: denormalizing the output of normalize with the record it returned   *)
(* gives back the vertex set, component for component, for both methods,   *)
(* degenerate axes and coincident points included.                         *)
(***************************************************************************)
C2_RoundTrip ==
  (HasInput /\ pc = "roundtrip") => reconstructed = vertices

\* a min-max round trip of a set with a flat axis and a spread axis
C2_Witness ==
  /\ HasInput /\ pc = "roundtrip" /\ call = "denorm_minmax"
  /\ \E a, c \in Axes : Degenerate(a) /\ ~Degenerate(c)

(***************************************************************************)
(* C3: with the same bins and method on both sides, the full chain         *)
(* denormalize(dequantize(quantize(normalize(V)))) is off from V on each   *)
(* axis by at most (v_max - v_min) / (bins - 1) for min-max and by at most *)
(* 2 * scale / (bins - 1) for the unit sphere, for every bins >= 2.        *)
(***************************************************************************)
ChainError(i, a) == AbsN(Sub(reconstructed.rows[i][a], vertices.rows[i][a]))

C3_ChainErrorBound ==
  /\ (MatchedChain("minmax") /\ bins >= 2) =>
       \A i \in Idx(vertices) : \A a \in Axes :
         Leq(ChainError(i, a),
             Div(Sub(params.v_max[a], params.v_min[a]), IntN(bins - 1)))
  /\ (MatchedChain("sphere") /\ bins >= 2) =>
       \A i \in Idx(vertices) : \A a \in Axes :
         Leq(ChainError(i, a), Div(Mul(IntN(2), params.scale), IntN(bins - 1)))

\* a sphere chain that lost something on some axis
C3_Witness ==
  /\ MatchedChain("sphere") /\ bins >= 2
  /\ \E i \in Idx(vertices) : \E a \in Axes : Lt(Zero, ChainError(i, a))

(***************************************************************************)
(* C4: norm_minmax's output lies in [0, 1] on every axis whose source      *)
(* range is positive and equals vertex - min, that is 0, on every axis     *)
(* whose source range is 0.                                                *)
(***************************************************************************)
C4_MinMaxRange ==
  NormalizedBy("minmax") =>
    \A i \in Idx(vertices) : \A a \in Axes :
      IF Lt(AxisMin(a), AxisMax(a))
      THEN Leq(Zero, normalized.rows[i][a]) /\ Leq(normalized.rows[i][a], One)
      ELSE /\ normalized.rows[i][a] = Sub(vertices.rows[i][a], AxisMin(a))
           /\ normalized.rows[i][a] = Zero

\* min-max output reaching both ends of [0, 1] on one axis, flat on another
C4_Witness ==
  /\ NormalizedBy("minmax")
  /\ \E a, c \in Axes :
       /\ Degenerate(c)
       /\ \E i, j \in Idx(vertices) :
            normalized.rows[i][a] = Zero /\ normalized.rows[j][a] = One

(***************************************************************************)
(* C5: when the points are not all coincident every point of norm_sphere's *)
(* output has squared Euclidean norm <= 1.                                 *)
(***************************************************************************)
C5_SphereNorm ==
  (NormalizedBy("sphere") /\ ~Coincident) =>
    \A i \in Idx(normalized) : Leq(Norm2(normalized.rows[i]), One)

\* sphere output with a point on the sphere and a point strictly inside
C5_Witness ==
  /\ NormalizedBy("sphere") /\ ~Coincident
  /\ \E i, j \in Idx(normalized) :
       /\ Norm2(normalized.rows[i]) = One
       /\ Lt(Zero, Norm2(normalized.rows[j])) /\ Lt(Norm2(normalized.rows[j]), One)

(***************************************************************************)
(* C6: degenerate inputs are handled by substitution, never by an error:   *)
(* norm_minmax divides by 1.0 on a flat axis, norm_sphere uses scale 1.0   *)
(* for coincident points and returns all zeros; both results are finite    *)
(* and neither call raises.                                                *)
(***************************************************************************)
AllFinite(x) == \A i \in Idx(x) : \A a \in Axes : IsFinite(x.rows[i][a])

C6_DegenerateSubstitution ==
  (HasInput /\ call \in {"norm_minmax", "norm_sphere"}) =>
    /\ raised = "" /\ pc = "normalized"
    /\ AllFinite(normalized)
    /\ call = "norm_minmax" =>
         \A a \in Axes : Degenerate(a) =>
           \A i \in Idx(vertices) :
             normalized.rows[i][a] = Div(Sub(vertices.rows[i][a], AxisMin(a)), One)
    /\ (call = "norm_sphere" /\ Coincident) =>
         /\ params.scale = One
         /\ \A i \in Idx(vertices) : \A a \in Axes : normalized.rows[i][a] = Zero

\* norm_sphere has returned for two or more coincident points
C6_Witness ==
  /\ HasInput /\ call = "norm_sphere" /\ raised = ""
  /\ Len(vertices.rows) >= 2 /\ Coincident

(***************************************************************************)
(* C7: denorm_minmax with a record not tagged 'minmax', and denorm_sphere  *)
(* with a record not tagged 'sphere', fail and return no vertex set.       *)
(***************************************************************************)
C7_MethodMismatch ==
  (\/ call = "denorm_minmax" /\ params.method # "minmax"
   \/ call = "denorm_sphere" /\ params.method # "sphere") =>
    raised # "" /\ pc = "failed" /\ reconstructed = NoArray

\* denorm_minmax was handed the record norm_sphere made
C7_Witness ==
  /\ HasInput /\ call = "denorm_minmax" /\ params.method = "sphere"
  /\ pc = "failed"

(***************************************************************************)
(* C8: in the decode sequence of process_mesh_reconstruction, when the     *)
(* record loaded for method M carries a tag different from M, decoding     *)
(* fails with an error and no reconstructed vertex set is saved for M.     *)
(***************************************************************************)
C8_DecodeTagMismatch ==
  \A m \in Methods :
    (loaded[m] # NoParams /\ loaded[m].method # m) =>
      /\ outputs.reconstructed[m] = NoArray
      /\ dec \in {"exit", "raised"}

(***************************************************************************)
(* C9: quantize, both dequantize functions and step5's denormalize fail    *)
(* and return nothing when the method selector, or the tag of the record,  *)
(* is neither 'minmax' nor 'sphere'.                                       *)
(***************************************************************************)
C9_UnknownMethod ==
  /\ (call = "quantize" /\ method \notin Methods) =>
       raised # "" /\ pc = "failed" /\ q = NoArray
  /\ (call \in {"dequantize", "dequantize5"} /\ dmethod \notin Methods) =>
       raised # "" /\ pc = "failed" /\ dequantized = NoArray
  /\ (call = "denormalize" /\ params.method \notin Methods) =>
       raised # "" /\ pc = "failed" /\ reconstructed = NoArray

\* step5's dequantize was called with an unknown selector on a lattice
C9_Witness ==
  /\ call = "dequantize5" /\ dmethod = "cube" /\ q # NoArray /\ pc = "failed"

(***************************************************************************)
(* C10: norm_minmax and norm_sphere fail on an empty (0 x 3) vertex set    *)
(* and return neither a normalized array nor a record.                     *)
(***************************************************************************)
C10_EmptyInput ==
  (call \in {"norm_minmax", "norm_sphere"} /\ vertices = Arr(<<>>)) =>
    raised # "" /\ pc = "failed" /\ normalized = NoArray /\ params = NoParams

\* norm_sphere was called on the empty vertex set
C10_Witness ==
  /\ call = "norm_sphere" /\ vertices = Arr(<<>>) /\ raised = "ValueError"

(***************************************************************************)
(* C11: norm_minmax, norm_sphere, denorm_minmax, denorm_sphere, quantize   *)
(* and both dequantize functions fail, with no output computed, when the   *)
(* input array is not two-dimensional with exactly 3 components per point. *)
(***************************************************************************)
\* the array is not two-dimensional with 3 components per point
NotNx3(x) == x.ndim # 2 \/ x.cols # 3

C11_ShapeError ==
  /\ (call \in {"norm_minmax", "norm_sphere"} /\ NotNx3(vertices)) =>
       raised = "ValueError" /\ pc = "failed"
       /\ normalized = NoArray /\ params = NoParams
  /\ (call \in {"denorm_minmax", "denorm_sphere"} /\ NotNx3(normalized)) =>
       raised = "ValueError" /\ pc = "failed" /\ reconstructed = NoArray
  /\ (call = "quantize" /\ NotNx3(normalized)) =>
       raised = "ValueError" /\ pc = "failed" /\ q = NoArray
  /\ (call \in {"dequantize", "dequantize5"} /\ NotNx3(q)) =>
       raised = "ValueError" /\ pc = "failed" /\ dequantized = NoArray

\* quantize was called with a known method on an array of shape (0, 2)
C11_Witness ==
  /\ call = "quantize" /\ method \in Methods /\ pc = "failed"
  /\ normalized.ndim = 2 /\ normalized.cols = 2 /\ normalized.rows = <<>>

(***************************************************************************)
(* C12: compute_errors fails, and returns no metrics, when the original    *)
(* and the reconstructed vertex set differ in their number of points.      *)
(***************************************************************************)
C12_LengthMismatch ==
  (call = "compute_errors" /\ Len(vertices.rows) # Len(reconstructed.rows)) =>
    raised = "ValueError" /\ pc = "failed" /\ metrics = NoMetrics

\* compute_errors was called with two points against one
C12_Witness ==
  /\ call = "compute_errors" /\ pc = "failed"
  /\ Len(vertices.rows) = 2 /\ Len(reconstructed.rows) = 1

(***************************************************************************)
(* C13: compute_errors(V, V) on a non-empty V reports mse_total,           *)
(* mae_total, every per-axis mse and mae, max_error, min_error, std_error  *)
(* and every per-vertex error as zero.                                     *)
(***************************************************************************)
C13_IdenticalSetsZero ==
  (call = "compute_errors" /\ HasInput /\ reconstructed = vertices) =>
    /\ raised = "" /\ pc = "measured"
    /\ metrics.mse_total = Zero /\ metrics.mae_total = Zero
    /\ \A k \in {"x", "y", "z"} :
         metrics.mse_per_axis[k] = Zero /\ metrics.mae_per_axis[k] = Zero
    /\ metrics.max_error = Zero /\ metrics.min_error = Zero
    /\ metrics.std_error = Zero
    /\ \A i \in Idx(vertices) :
         /\ metrics.per_vertex_error[i] = Zero
         /\ \A a \in Axes : metrics.per_vertex_abs_error[i][a] = Zero

\* compute_errors has measured two different points against themselves
C13_Witness ==
  /\ call = "compute_errors" /\ pc = "measured" /\ reconstructed = vertices
  /\ Len(vertices.rows) = 2 /\ vertices.rows[1] # vertices.rows[2]

(***************************************************************************)
(* C14: for two vertex sets of equal length N, mse_total and mae_total are *)
(* the sums of the squared and of the absolute component differences       *)
(* divided by 3N, mse_per_axis[a] and mae_per_axis[a] the same sums over   *)
(* axis a divided by N, and max_error and min_error the largest and the    *)
(* smallest per-vertex Euclidean error.                                    *)
(***************************************************************************)
DiffAt(i, a) == Sub(vertices.rows[i][a], reconstructed.rows[i][a])

\* the sum of F over the index pairs of S
RECURSIVE SumOver(_, _)
SumOver(F(_, _), S) ==
  IF S = {} THEN Zero
  ELSE LET p == CHOOSE p \in S : TRUE
       IN  Add(F(p[1], p[2]), SumOver(F, S \ {p}))

\* the squared Euclidean error of vertex i
Error2(i) == SumOver(LAMBDA j, a : Sq(DiffAt(j, a)), {i} \X Axes)

AxisKey(a) == <<"x", "y", "z">>[a]

C14_MetricFormulas ==
  (call = "compute_errors" /\ raised = "") =>
    LET N == Len(vertices.rows)
        All == Idx(vertices) \X Axes
    IN  /\ metrics.mse_total =
             Div(SumOver(LAMBDA i, a : Sq(DiffAt(i, a)), All), IntN(3 * N))
        /\ metrics.mae_total =
             Div(SumOver(LAMBDA i, a : AbsN(DiffAt(i, a)), All), IntN(3 * N))
        /\ \A c \in Axes :
             /\ metrics.mse_per_axis[AxisKey(c)] =
                  Div(SumOver(LAMBDA i, a : Sq(DiffAt(i, a)), Idx(vertices) \X {c}),
                      IntN(N))
             /\ metrics.mae_per_axis[AxisKey(c)] =
                  Div(SumOver(LAMBDA i, a : AbsN(DiffAt(i, a)), Idx(vertices) \X {c}),
                      IntN(N))
        /\ NonNeg(metrics.max_error) /\ NonNeg(metrics.min_error)
        /\ \E i \in Idx(vertices) : Sq(metrics.max_error) = Error2(i)
        /\ \E i \in Idx(vertices) : Sq(metrics.min_error) = Error2(i)
        /\ \A i \in Idx(vertices) :
             /\ Leq(Error2(i), Sq(metrics.max_error))
             /\ Leq(Sq(metrics.min_error), Error2(i))

\* two vertices measured with different errors, and the axes with different sums
C14_Witness ==
  /\ call = "compute_errors" /\ pc = "measured" /\ Len(vertices.rows) = 2
  /\ Lt(Zero, metrics.min_error) /\ Lt(metrics.min_error, metrics.max_error)
  /\ metrics.mse_per_axis.x # metrics.mse_per_axis.y
  /\ metrics.mse_per_axis.y # metrics.mse_per_axis.z

(***************************************************************************)
(* C15: no core operation mutates its arguments.  Whatever is called, the  *)
(* vertex array keeps its values; once returned, the normalized array and  *)
(* the record (v_min, v_max, center, scale) are not changed by quantize,   *)
(* the inverses or any later call, the lattice is not changed by           *)
(* dequantize, the dequantized array not by denormalize, and the           *)
(* reconstruction not by compute_errors.                                   *)
(***************************************************************************)
C15_NoMutation ==
  [][/\ vertices' = vertices
     /\ pc # "loaded" => normalized' = normalized /\ params' = params
     /\ pc \notin {"loaded", "normalized"} => q' = q
     /\ pc \notin {"loaded", "normalized", "quantized"} => dequantized' = dequantized
     /\ pc = "reconstructed" => reconstructed' = reconstructed]_vars

\* a vertex set has been through the four calls of the chain
C15_Witness ==
  /\ HasInput /\ pc = "done" /\ call = "denormalize" /\ raised = ""
  /\ normalized # NoArray /\ q # NoArray /\ dequantized # NoArray

(***************************************************************************)
(* C16: normalize, quantize, dequantize and denormalize each return N      *)
(* points for N points, and output point i is a function of input point i  *)
(* and of the record / bins / method alone; no stage and no chain of       *)
(* stages reorders, drops or duplicates points.                            *)
(***************************************************************************)
\* what each stage makes of one component, given the parameters only
NormalizedPoint(x, a) ==
  IF params.method = "minmax"
  THEN Div(Sub(x, params.v_min[a]),
           IF params.v_max[a] = params.v_min[a] THEN One
           ELSE Sub(params.v_max[a], params.v_min[a]))
  ELSE Div(Sub(x, params.center[a]), params.scale)
QuantizedPoint(x) == Clip(FloorBin(Normalized01(x, method), bins), 0, bins - 1)
DequantizedPoint(k) ==
  IF dmethod = "minmax" THEN Div(IntN(k), IntN(dbins - 1))
  ELSE Sub(Div(IntN(2 * k), IntN(dbins - 1)), One)
DenormalizedPoint(x, a) ==
  IF params.method = "minmax"
  THEN Add(Mul(x, Sub(params.v_max[a], params.v_min[a])), params.v_min[a])
  ELSE Add(Mul(x, params.scale), params.center[a])

\* y has the rows of x, each mapped by F, in the same order
Pointwise(x, y, F(_, _)) ==
  /\ Len(y.rows) = Len(x.rows)
  /\ \A i \in Idx(x) : \A a \in Axes : y.rows[i][a] = F(x.rows[i][a], a)

C16_OrderPreserved ==
  /\ (call \in {"norm_minmax", "norm_sphere"} /\ raised = "") =>
       Pointwise(vertices, normalized, NormalizedPoint)
  /\ (call = "quantize" /\ raised = "") =>
       Pointwise(normalized, q, LAMBDA x, a : QuantizedPoint(x))
  /\ (call \in {"dequantize", "dequantize5"} /\ raised = "") =>
       Pointwise(q, dequantized, LAMBDA k, a : DequantizedPoint(k))
  /\ (call \in {"denorm_minmax", "denorm_sphere"} /\ raised = "") =>
       Pointwise(normalized, reconstructed, DenormalizedPoint)
  /\ (call = "denormalize" /\ raised = "") =>
       /\ Pointwise(dequantized, reconstructed, DenormalizedPoint)
       /\ HasInput => Len(reconstructed.rows) = Len(vertices.rows)

\* three different points have been through the whole chain
C16_Witness ==
  /\ HasInput /\ pc = "done" /\ raised = "" /\ Len(vertices.rows) >= 3
  /\ \A i, j \in Idx(vertices) : i # j => vertices.rows[i] # vertices.rows[j]
  /\ \E i, j \in Idx(q) : q.rows[i] # q.rows[j]

(***************************************************************************)
(* C17: for V = [(0,0,0), (1,1,1), (2,0.5,1.5), (-1,2,0.5)] norm_minmax    *)
(* returns v_min = (-1,0,0), v_max = (2,2,1.5) and normalized[0] =         *)
(* (1/3,0,0); quantize with bins = 1024 and 'minmax' makes (341,0,0) of    *)
(* it, dequantize (341/1023,0,0), and denorm_minmax (0,0,0) again.         *)
(***************************************************************************)
\* the example went through norm_minmax, and the later calls used 1024 bins
ExampleBy(fns) ==
  /\ vertices = ExampleVertices /\ params.method = "minmax"
  /\ call \in fns /\ raised = ""
  /\ call # "norm_minmax" => bins = BINS /\ method = "minmax"
  /\ call \notin {"norm_minmax", "quantize"} => dbins = BINS /\ dmethod = "minmax"

C17_WorkedExample ==
  /\ ExampleBy({"norm_minmax"}) =>
       /\ params.v_min = Row(-1, 0, 0)
       /\ params.v_max = <<IntN(2), IntN(2), Num(<<3, 2>>)>>
       /\ normalized.rows[1] = <<Num(<<1, 3>>), Zero, Zero>>
  /\ ExampleBy({"quantize"}) => q.rows[1] = <<341, 0, 0>>
  /\ ExampleBy({"dequantize", "dequantize5"}) =>
       dequantized.rows[1] = <<Div(IntN(341), IntN(1023)), Zero, Zero>>
  /\ ExampleBy({"denormalize"}) => reconstructed.rows[1] = Row(0, 0, 0)

\* the example has been through the four calls
C17_Witness == ExampleBy({"denormalize"}) /\ pc = "done" /\ q.rows[2] = <<682, 511, 682>>

(***************************************************************************)
(* C18: quantize and dequantize accept only bins >= 2: a call with         *)
(* bins < 2, such as 1 or 0, fails rather than returning a lattice or a    *)
(* vertex set.                                                             *)
(***************************************************************************)
C18_SmallBinsRejected ==
  /\ (call = "quantize" /\ bins < 2) => (raised # "" /\ pc = "failed")
  /\ (call \in {"dequantize", "dequantize5"} /\ dbins < 2) =>
       (raised # "" /\ pc = "failed")

(***************************************************************************)
(* C19: decoding a lattice with a bins >= 2 other than the one it was      *)
(* encoded with raises no error: dequantize and then denormalize return    *)
(* an N x 3 array for the N x 3 lattice, with values that may differ from  *)
(* those the matching bins gives.                                          *)
(***************************************************************************)
\* a lattice made with bins is decoded with another bins, both >= 2
OtherBins ==
  /\ ShapeOK(q) /\ bins >= 2 /\ dbins >= 2 /\ dbins # bins
  /\ dmethod \in Methods

C19_OtherBinsDecodes ==
  /\ (call \in {"dequantize", "dequantize5"} /\ OtherBins) =>
       /\ raised = "" /\ pc = "dequantized"
       /\ ShapeOK(dequantized) /\ Len(dequantized.rows) = Len(q.rows)
  /\ (call = "denormalize" /\ OtherBins /\ params.method \in Methods) =>
       /\ raised = "" /\ pc = "done"
       /\ ShapeOK(reconstructed) /\ Len(reconstructed.rows) = Len(q.rows)

\* a decode with other bins that gave other values than the matching bins gives
C19_Witness ==
  /\ HasInput /\ pc = "done" /\ call = "denormalize" /\ OtherBins
  /\ method = dmethod /\ params.method = method
  /\ reconstructed # denormalize(dequantize(q, bins, method).normalized, params).reconstructed

(***************************************************************************)
(* C20: norm_minmax returns a record tagged 'minmax' whose v_min and v_max *)
(* are the per-axis minimum and maximum of the input, equal on a           *)
(* degenerate axis (the 1.0 put in for a zero range is not stored);        *)
(* norm_sphere returns a record tagged 'sphere' whose center is the        *)
(* centroid of the input and whose scale is the largest distance from the  *)
(* centroid to an input point, or 1.0 when that distance is 0.             *)
(***************************************************************************)
\* squared distance of vertex i from the record's center
CenterDist2(i) ==
  Norm2(Vec(LAMBDA a : Sub(vertices.rows[i][a], params.center[a])))

C20_RecordContents ==
  /\ (HasInput /\ call = "norm_minmax" /\ raised = "") =>
       /\ params.method = "minmax"
       /\ DOMAIN params = {"method", "v_min", "v_max"}
       /\ \A a \in Axes :
            /\ params.v_min[a] = AxisMin(a) /\ params.v_max[a] = AxisMax(a)
            /\ (\A i \in Idx(vertices) : vertices.rows[i][a] = vertices.rows[1][a])
                 => params.v_max[a] = params.v_min[a]
  /\ (HasInput /\ call = "norm_sphere" /\ raised = "") =>
       /\ params.method = "sphere"
       /\ DOMAIN params = {"method", "center", "scale"}
       /\ \A a \in Axes :
            Mul(params.center[a], IntN(Len(vertices.rows)))
              = Sum(LAMBDA i : vertices.rows[i][a], Len(vertices.rows))
       /\ Lt(Zero, params.scale)
       /\ IF \A i \in Idx(vertices) : CenterDist2(i) = Zero
          THEN params.scale = One
          ELSE /\ \A i \in Idx(vertices) :
                    Leq(CenterDist2(i), Mul(params.scale, params.scale))
               /\ \E i \in Idx(vertices) :
                    CenterDist2(i) = Mul(params.scale, params.scale)

\* norm_minmax has returned the record of a set flat on one axis and spread on
\* another
C20_Witness ==
  /\ HasInput /\ call = "norm_minmax" /\ pc = "normalized"
  /\ \E a, c \in Axes :
       /\ params.v_max[a] = params.v_min[a]
       /\ Lt(params.v_min[c], params.v_max[c])

(***************************************************************************)
(* C21: on an axis a where all points of the vertex set share one value    *)
(* the min-max decode multiplies by v_max[a] - v_min[a] = 0: whatever the  *)
(* lattice holds and whatever bins decodes it, every reconstructed vertex  *)
(* has v_min[a] on that axis, which is the original value.                 *)
(***************************************************************************)
\* denormalize has returned for the record norm_minmax made of `vertices`
MinMaxDecoded ==
  /\ HasInput /\ call = "denormalize" /\ raised = ""
  /\ params.method = "minmax" /\ dbins >= 2

C21_DegenerateAxisConstant ==
  MinMaxDecoded =>
    \A a \in Axes :
      Degenerate(a) =>
        \A i \in Idx(reconstructed) :
          /\ reconstructed.rows[i][a] = params.v_min[a]
          /\ reconstructed.rows[i][a] = vertices.rows[i][a]

\* the decoded value on a flat axis was not 0 before the multiplication
C21_Witness ==
  /\ MinMaxDecoded
  /\ \E a \in Axes : Degenerate(a) /\ \E i \in Idx(dequantized) :
       IsFinite(dequantized.rows[i][a]) /\ dequantized.rows[i][a] # Zero

(***************************************************************************)
(* C22: for bins >= 2 and a component x of a normalized input inside the   *)
(* method's range ([0, 1] for min-max, [-1, 1] for the sphere),            *)
(* dequantize(quantize(x)) is the largest bin boundary not above x: a      *)
(* boundary, never greater than x, and below x by less than 1/(bins-1)     *)
(* in [0, 1] units, 2/(bins-1) in [-1, 1] units.                           *)
(***************************************************************************)
\* dequantize has returned for what quantize made of `normalized`, with the
\* same bins >= 2 and the same method
Requantized ==
  /\ call \in {"dequantize", "dequantize5"} /\ raised = "" /\ ShapeOK(normalized)
  /\ bins >= 2 /\ dbins = bins /\ method \in Methods /\ dmethod = method

InMethodRange(x) ==
  Leq(IF method = "minmax" THEN Zero ELSE IntN(-1), x) /\ Leq(x, One)

\* the distance between two bin boundaries in the method's units
BinWidth ==
  Div(IF method = "minmax" THEN One ELSE IntN(2), IntN(bins - 1))

\* d is boundary number k of the method's range, for some k of 0 .. bins - 1
OnBoundary(d) ==
  LET k == Mul(Normalized01(d, method), IntN(bins - 1))
  IN  k = IntN(Floor(k)) /\ Floor(k) \in 0..(bins - 1)

C22_SnapsToLowerBoundary ==
  Requantized =>
    \A i \in Idx(normalized) : \A a \in Axes :
      InMethodRange(normalized.rows[i][a]) =>
        /\ OnBoundary(dequantized.rows[i][a])
        /\ Leq(dequantized.rows[i][a], normalized.rows[i][a])
        /\ Lt(Sub(normalized.rows[i][a], dequantized.rows[i][a]), BinWidth)

\* a component strictly inside a bin was snapped down, and one on a boundary kept
C22_Witness ==
  /\ Requantized
  /\ \E i, j \in Idx(normalized) : \E a, c \in Axes :
       /\ InMethodRange(normalized.rows[i][a])
       /\ Lt(dequantized.rows[i][a], normalized.rows[i][a])
       /\ Lt(Zero, normalized.rows[j][c])
       /\ dequantized.rows[j][c] = normalized.rows[j][c]

(***************************************************************************)
(* C23: when quantize is applied to the output of the matching normalizer  *)
(* for a non-empty vertex set, with bins >= 2, floor(x01 * (bins - 1)) is  *)
(* already in [0, bins-1] for every component, so the clamp changes no     *)
(* value; a component on the upper boundary maps to exactly bins - 1.      *)
(***************************************************************************)
\* quantize has returned for the normalizer's output, called with its method
MatchedQuantize ==
  /\ HasInput /\ call = "quantize" /\ raised = ""
  /\ bins >= 2 /\ method = params.method

C23_ClampIdle ==
  MatchedQuantize =>
    \A i \in Idx(normalized) : \A a \in Axes :
      LET x01 == Normalized01(normalized.rows[i][a], method)
      IN  /\ FloorBin(x01, bins) \in 0..(bins - 1)
          /\ q.rows[i][a] = FloorBin(x01, bins)
          /\ x01 = One => q.rows[i][a] = bins - 1

\* a component on the upper boundary and one on the lower, in a sphere encoding
C23_Witness ==
  /\ MatchedQuantize /\ method = "sphere"
  /\ \E i, j \in Idx(normalized) : \E a, c \in Axes :
       /\ normalized.rows[i][a] = One /\ q.rows[i][a] = bins - 1
       /\ Lt(normalized.rows[j][c], Zero)

(***************************************************************************)
(* C24: across the encode and decode runs a reconstructed mesh is written  *)
(* for a method only when the persisted lattice and the persisted record   *)
(* of that method are both present; if either file is missing the decode   *)
(* exits before writing anything, and an encode run that gets through a    *)
(* method has persisted both files of that method.                         *)
(***************************************************************************)
\* both files of method m are in outputs/
Persisted(dir, m) == dir.quantized[m] # NoArray /\ dir.params[m] # NoParams

C24_BothOrNothing ==
  [][/\ \A m \in Methods :
          outputs'.reconstructed[m] # outputs.reconstructed[m] => Persisted(outputs, m)
     /\ (dec \in Methods /\ dec' # dec /\ ~Persisted(outputs, dec)) =>
          (dec' = "exit" /\ outputs' = outputs)
     /\ (enc \in Methods /\ enc' = NextMethod(enc)) => Persisted(outputs', enc)
     /\ enc' = "done" => \A m \in Methods : Persisted(outputs', m)]_vars

\* the encode ran first on an empty directory, the decode wrote both meshes
C24_Witness ==
  /\ enc = "done" /\ dec = "done"
  /\ \A m \in Methods :
       /\ outputs.reconstructed[m] # NoArray
       /\ Len(outputs.reconstructed[m].rows) = Len(vertices.rows)
       /\ loaded[m] = load_normalization_params(outputs.params[m])

(***************************************************************************)
(* C25: a record written by save_normalization_params and read back by     *)
(* load_normalization_params has the tag and the v_min / v_max or center / *)
(* scale values of the record normalize produced, so decoding from the     *)
(* persisted record gives the vertex set decoding from the in-memory       *)
(* record gives.                                                           *)
(***************************************************************************)
\* what the normalizer of method m returns for the mesh
NormOf(m) == IF m = "minmax" THEN norm_minmax(vertices) ELSE norm_sphere(vertices)

\* the decode of a lattice with the in-memory record of method m
DecodedInMemory(lattice, m) ==
  denormalize(dequantize5(lattice, BINS, m).normalized, NormOf(m).params).reconstructed

C27_DecodedWithinUnitSphere ==
  (/\ HasInput /\ call \in {"dequantize", "dequantize5"} /\ raised = ""
   /\ params.method = "sphere" /\ method = "sphere" /\ dmethod = "sphere"
   /\ bins >= 2 /\ dbins = bins) =>
    \A i \in Idx(dequantized) : Leq(Norm2(dequantized.rows[i]), One)

\* C28: encoding a decoded lattice gives the lattice back: after any number of
\* decode and encode passes with the same bins >= 2 and method, a lattice
\* point of [0, bins - 1] is the point the passes started from.  The float64
\* quotient k / (bins - 1), multiplied by bins - 1 again, can fall below k.
C28_ReencodeKeepsLattice ==
  (lattice64.bins >= 2 /\ lattice64.passes > 0) => lattice64.q = lattice64.q0

\* C30: the method comparison of create_report_text never raises: whatever
\* non-negative total MSE values the two methods of a mesh have, zeros
\* included, the loop goes on without a ZeroDivisionError.
C30_ComparisonCompletes == report.raised = ""

\* step5's decode of the files of method m: dequantize, then denormalize
Step5Path(dir, m) ==
  LET d == dequantize5(dir.quantized[m], BINS, m)
  IN  IF ~d.ok THEN d
      ELSE denormalize(d.normalized, load_normalization_params(dir.params[m]))

\* outputs/ holds a lattice and a record for m, and the record's tag is m
Matching(dir, m) == Persisted(dir, m) /\ dir.params[m].method = m

\* C29: the three decode paths agree: on a lattice file and a record file
\* whose tag is the requested method, what step6's load_reconstructed_mesh
\* and step7's load_reconstructed_vertices return is what step5's dequantize
\* and denormalize give with bins = BINS, the value step4 encoded with, and
\* the reconstruction step5 saves is the one step6 would return.
C29_DecodePathsAgree ==
  [][\A m \in Methods : Matching(outputs, m) =>
       /\ (step6.at = m /\ step6' # step6) => step6'.result = Step5Path(outputs, m)
       /\ (step7.at = m /\ step7' # step7) => step7'.result = Step5Path(outputs, m)
       /\ (dec = m /\ dec' = NextMethod(m)) =>
            outputs'.reconstructed[m] = load_reconstructed_mesh(outputs, m).reconstructed]_vars

\* all three scripts decoded both methods of a mesh step4 encoded, and the
\* last reconstruction is the same in all three
C29_Witness ==
  /\ enc = "done" /\ dec = "done" /\ step6.at = "done" /\ step7.at = "done"
  /\ \A m \in Methods : Matching(outputs, m)
  /\ step6.result.reconstructed = outputs.reconstructed["sphere"]
  /\ step7.result.reconstructed = outputs.reconstructed["sphere"]
  /\ outputs.reconstructed["sphere"] # outputs.reconstructed["minmax"]

\* the lattice, record and reconstruction of a vertex set processed alone
AloneLattice(v, m) == quantize(norm_func(m, v).normalized, BINS, m).q
AloneRecord(v, m) == save_normalization_params(norm_func(m, v).params)
AloneReconstructed(v, m) ==
  denormalize(dequantize5(AloneLattice(v, m), BINS, m).normalized,
              norm_func(m, v).params).reconstructed
Alone(v) ==
  [quantized |-> [m \in Methods |-> AloneLattice(v, m)],
   params |-> [m \in Methods |-> AloneRecord(v, m)],
   reconstructed |-> [m \in Methods |-> AloneReconstructed(v, m)]]

\* the files of a run
FilesOf(d, j) == d[ObjFiles[j].stem]

\* C26: two vertex sets processed in any interleaving are independent: a step
\* of one run changes neither the local values nor the files of the other,
\* no run stops early, every lattice or record a run persists and every
\* reconstruction it saves is the one of its vertex set processed alone, and
\* a finished run leaves exactly the files of processing alone.
C26_RunsIndependent ==
  [][\A j \in Runs : jobs'[j] # jobs[j] =>
       /\ \A k \in Runs \ {j} : jobs'[k] = jobs[k] /\ FilesOf(disk', k) = FilesOf(disk, k)
       /\ jobs'[j].at \notin {"exit", "raised"}
       /\ \A m \in Methods :
            /\ FilesOf(disk', j).quantized[m] \in {NoArray, AloneLattice(jobs[j].vertices, m)}
            /\ FilesOf(disk', j).params[m] \in {NoParams, AloneRecord(jobs[j].vertices, m)}
            /\ FilesOf(disk', j).reconstructed[m]
                 \in {NoArray, AloneReconstructed(jobs[j].vertices, m)}
       /\ jobs'[j].at = "done" => FilesOf(disk', j) = Alone(jobs[j].vertices)]_vars

\* both runs are under way: the first is decoding its sphere lattice, having
\* saved its min-max reconstruction, while the second, of another size, is
\* about to persist its sphere lattice next to its min-max files
C26_Witness ==
  /\ jobs[1].at = "denormalize" /\ jobs[1].m = "sphere"
  /\ jobs[2].at = "persist" /\ jobs[2].m = "sphere"
  /\ Len(jobs[1].vertices.rows) # Len(jobs[2].vertices.rows)
  /\ FilesOf(disk, 1).reconstructed["minmax"] = AloneReconstructed(jobs[1].vertices, "minmax")
  /\ FilesOf(disk, 2).quantized["minmax"] = AloneLattice(jobs[2].vertices, "minmax")
  /\ FilesOf(disk, 1).quantized["sphere"] # FilesOf(disk, 2).quantized["minmax"]
====
